---- MODULE Spec2Model ----
(***************************************************************************)
(* A model of gorpher/winspool-cgo: the WinSpool print-job lifecycle       *)
(* (Print, newJobContext, jobContext.free, printPage), the job services    *)
(* (GetJobState, ReleaseJob) and the status translators                    *)
(* (convertJobState, convertPrinterState).                                 *)
(*                                                                         *)
(* Conventions.  A Go pointer or optional value is a sequence of length    *)
(* at most one: <<>> is nil, <<x>> is a value x.  A bitfield is the set of *)
(* the names of its bits that are set: (w & B) != 0 is B \in w, and w == 0 *)
(* is w = {}.  A native resource is "open" from the call that acquires it  *)
(* until its release call has been issued, whatever that call returns.     *)
(***************************************************************************)
EXTENDS Integers, Sequences, FiniteSets, TLC

\* ------------------------------------------------------------ state
VARIABLES
  \* Print, one entry per calling task
  pc,           \* where each call of Print stands
  sem,          \* the printer's NativeJobSemaphore: the slots held
  faults,       \* the native calls that may fail in this run
  ticket,       \* Print's ticket argument
  description,  \* printer.Description: the capability groups advertised
  nPages,       \* pDoc.GetNPages()
  open,         \* the resources open
  devMode,      \* jobContext.devMode
  fitToPage,    \* Print's local fitToPage
  i,            \* the page loop's index
  acquired,     \* history: the resources acquired, in order
  released,     \* history: the resources whose release call was issued, in order
  rendered,     \* history: the pages rendered, in order
  ji1,          \* the status Print read with GetJob
  cmds,         \* history: the job commands Print issued
  ret,          \* what Print returned
  \* the spooler's job and the job services (GetJobState, ReleaseJob)
  jobExists,    \* the job is in the spooler's queue
  jobStatus,    \* the job's status bitfield, changed by the spooler
  svc,          \* the service call running or last run
  svcPc,        \* where it stands
  svcJi1,       \* the status ReleaseJob read with GetJob
  svcNative,    \* history: what OpenPrinter and GetJob returned to the call
  svcHPrinter,  \* the call's hPrinter: nil, the handle open, or the handle closed
  svcCmds,      \* history: the job commands the call issued
  svcRet,       \* what the call returned
  \* the translators' inputs and results
  wsJobStatus,  \* convertJobState's argument
  jobState,     \* its result
  wsStatus,     \* convertPrinterState's arguments
  wsAttributes,
  printerState, \* its result
  tkTicket,     \* a ticket, a Description and the settings read from a device
  tkDesc,
  tkDevMode,
  tkResolved,   \* the result of resolving the ticket
  \* GetPrinters
  pi2s,         \* what EnumPrinters2 enumerates: the devices with their settings and capabilities
  gpFaults,     \* the native calls of GetPrinters that fail in this run
  gpRet,        \* what GetPrinters returned
  \* convertMediaSize
  msDevMode,    \* convertMediaSize's devMode argument
  msCaps,       \* what the device answers to the three paper queries
  msFaults,     \* the paper queries that fail in this run
  msRet,        \* what convertMediaSize returned
  \* ConcurrentPrinterMap, one entry per task in the per-task variables
  byNativeName, \* ConcurrentPrinterMap.byNativeName: a map from names to printers
  byGCPID,      \* ConcurrentPrinterMap.byGCPID
  mutex,        \* ConcurrentPrinterMap.mutex: the writer holding it, the readers holding it, the writers blocked in Lock
  cpmPc,        \* where each task's call on the map stands
  cpmOp,        \* the call each task runs or last ran, with its argument
  cpmLocal,     \* the call's locals: Refresh's map c, GetAll's slice
  cpmRet,       \* what a read is about to return
  lastList,     \* history: the list of the latest Refresh that swapped its map in
  viewList,     \* history: lastList when the task's read took the lock
  \* getScaleAndOffset
  scIn,         \* the device caps, the page size and fitToPage of one printPage
  scOut         \* getScaleAndOffset's results and the transform printPage sets

printVars ==
  << pc, sem, faults, ticket, description, nPages, open, devMode, fitToPage, i,
     acquired, released, rendered, ji1, cmds, ret >>

jobVars == << jobExists, jobStatus, svc, svcPc, svcJi1, svcNative, svcHPrinter, svcCmds, svcRet >>

jobStateVars == << wsJobStatus, jobState >>

printerStateVars == << wsStatus, wsAttributes, printerState >>

ticketVars == << tkTicket, tkDesc, tkDevMode, tkResolved >>

printersVars == << pi2s, gpFaults, gpRet >>

mediaSizeVars == << msDevMode, msCaps, msFaults, msRet >>

cpmVars == << byNativeName, byGCPID, mutex, cpmPc, cpmOp, cpmLocal, cpmRet, lastList, viewList >>

scaleVars == << scIn, scOut >>

vars ==
  << printVars, jobVars, jobStateVars, printerStateVars, ticketVars, printersVars, mediaSizeVars, cpmVars, scaleVars >>

\* What an action of one part leaves alone of the others.
NotPrint ==
  << jobVars, jobStateVars, printerStateVars, ticketVars, printersVars, mediaSizeVars, cpmVars, scaleVars >>
NotJobs ==
  << printVars, jobStateVars, printerStateVars, ticketVars, printersVars, mediaSizeVars, cpmVars, scaleVars >>
NotJobState ==
  << printVars, jobVars, printerStateVars, ticketVars, printersVars, mediaSizeVars, cpmVars, scaleVars >>
NotPrinterState ==
  << printVars, jobVars, jobStateVars, ticketVars, printersVars, mediaSizeVars, cpmVars, scaleVars >>
NotTicket ==
  << printVars, jobVars, jobStateVars, printerStateVars, printersVars, mediaSizeVars, cpmVars, scaleVars >>
NotPrinters ==
  << printVars, jobVars, jobStateVars, printerStateVars, ticketVars, mediaSizeVars, cpmVars, scaleVars >>
NotMediaSize ==
  << printVars, jobVars, jobStateVars, printerStateVars, ticketVars, printersVars, cpmVars, scaleVars >>
NotCpm ==
  << printVars, jobVars, jobStateVars, printerStateVars, ticketVars, printersVars, mediaSizeVars, scaleVars >>
NotScale ==
  << printVars, jobVars, jobStateVars, printerStateVars, ticketVars, printersVars, mediaSizeVars, cpmVars >>


\* ------------------------------------------------------------ bounds
NumProcs == 3
MaxPages == 2
MaxJobBits == 2
MaxPrinterBits == 3
MaxTicketItems == 2
MaxPrinters == 2
MaxPapers == 2
NumTasks == 3

\* ------------------------------------------------------------ program constants
nativeJobQueueSize == 2

Procs == 1..NumProcs

Nil == <<>>
Some(x) == <<x>>

RECURSIVE BoundedSubsets(_, _)
\* The subsets of S of at most k elements.
BoundedSubsets(S, k) ==
  IF k = 0 THEN {{}}
  ELSE LET smaller == BoundedSubsets(S, k - 1)
       IN  smaller \cup {t \cup {x} : t \in smaller, x \in S}

\* ------------------------------------------------------------ native values
DMCOLOR_MONOCHROME == 1
DMCOLOR_COLOR == 2
DMDUP_SIMPLEX == 1
DMDUP_VERTICAL == 2
DMDUP_HORIZONTAL == 3
DMORIENT_PORTRAIT == 1
DMORIENT_LANDSCAPE == 2
DMCOLLATE_FALSE == 0
DMCOLLATE_TRUE == 1

\* int16(x): Go's conversion of an integer to a 16-bit signed one wraps.
ToInt16(x) == ((x + 32768) % 65536) - 32768

\* Go's integer division truncates toward zero.
GoDiv(a, b) == IF a >= 0 THEN a \div b ELSE -((-a) \div b)

\* ------------------------------------------------------------ strconv.ParseInt(s, 10, 16)
\* A string is the sequence of its characters.
DigitChars == {"0", "1", "2", "3", "4", "5", "6", "7", "8", "9"}

DigitVal(c) ==
  CASE c = "0" -> 0 [] c = "1" -> 1 [] c = "2" -> 2 [] c = "3" -> 3 [] c = "4" -> 4
    [] c = "5" -> 5 [] c = "6" -> 6 [] c = "7" -> 7 [] c = "8" -> 8 [] c = "9" -> 9

RECURSIVE DecimalValue(_)
DecimalValue(s) ==
  IF s = <<>> THEN 0 ELSE 10 * DecimalValue(SubSeq(s, 1, Len(s) - 1)) + DigitVal(s[Len(s)])

\* [err, v]: a syntax error for an empty string, a lone sign or a non-digit, a
\* range error for a value outside -32768..32767.
ParseInt16(s) ==
  LET signed == s # <<>> /\ s[1] \in {"+", "-"}
      digits == IF signed THEN Tail(s) ELSE s
      syntaxOK == digits # <<>> /\ \A k \in 1..Len(digits) : digits[k] \in DigitChars
      mag == IF syntaxOK THEN DecimalValue(digits) ELSE 0
      v == IF signed /\ s[1] = "-" THEN -mag ELSE mag
  IN  IF syntaxOK /\ v >= -32768 /\ v <= 32767
        THEN [err |-> FALSE, v |-> v]
        ELSE [err |-> TRUE, v |-> 0]

\* ------------------------------------------------------------ DevMode
\* The device settings: each field is <<>> while its dmFields bit is clear and
\* <<v>> once set.
DevModeFields ==
  {"Color", "Duplex", "Orientation", "Copies", "PaperSize", "PaperLength", "PaperWidth", "Collate"}

SetField(dm, f, v) == [dm EXCEPT ![f] = Some(v)]
ClearField(dm, f) == [dm EXCEPT ![f] = Nil]

\* ------------------------------------------------------------ the ticket's enum maps
colorValueByType ==
  ("STANDARD_COLOR" :> DMCOLOR_COLOR) @@ ("STANDARD_MONOCHROME" :> DMCOLOR_MONOCHROME)

duplexValueByType ==
  ("NO_DUPLEX" :> DMDUP_SIMPLEX) @@ ("LONG_EDGE" :> DMDUP_VERTICAL)
    @@ ("SHORT_EDGE" :> DMDUP_HORIZONTAL)

pageOrientationByType ==
  ("PORTRAIT" :> DMORIENT_PORTRAIT) @@ ("LANDSCAPE" :> DMORIENT_LANDSCAPE)

\* ------------------------------------------------------------ Print: the ticket onto the settings
\* desc is the set of the capability groups printer.Description advertises
\* (Description.X != nil is "X" \in desc); t is the ticket, each item <<>> or <<item>>.
\* Each step returns [err, devMode]; err is Print's early "return 0, err".
ApplyColor(t, desc, dm) ==
  IF t.Color # Nil /\ "Color" \in desc
    THEN IF t.Color[1].Type \in DOMAIN colorValueByType
           THEN [err |-> FALSE, devMode |-> SetField(dm, "Color", colorValueByType[t.Color[1].Type])]
           ELSE IF t.Color[1].VendorID # <<>>
                  THEN LET r == ParseInt16(t.Color[1].VendorID)
                       IN  IF r.err
                             THEN [err |-> TRUE, devMode |-> dm]
                             ELSE [err |-> FALSE, devMode |-> SetField(dm, "Color", ToInt16(r.v))]
                  ELSE [err |-> FALSE, devMode |-> dm]
    ELSE [err |-> FALSE, devMode |-> dm]

ApplyDuplex(t, desc, dm) ==
  IF t.Duplex # Nil /\ "Duplex" \in desc /\ t.Duplex[1].Type \in DOMAIN duplexValueByType
    THEN SetField(dm, "Duplex", duplexValueByType[t.Duplex[1].Type])
    ELSE dm

ApplyPageOrientation(t, desc, dm) ==
  IF t.PageOrientation # Nil /\ "PageOrientation" \in desc
     /\ t.PageOrientation[1].Type \in DOMAIN pageOrientationByType
    THEN SetField(dm, "Orientation", pageOrientationByType[t.PageOrientation[1].Type])
    ELSE dm

\* A copies step that applies the requested number whatever its sign.
ApplyCopiesOfAnySign(t, desc, dm) ==
  IF t.Copies # Nil /\ "Copies" \in desc
    THEN SetField(dm, "Copies", ToInt16(t.Copies[1].Copies))
    ELSE dm

ApplyCopies(t, desc, dm) ==
  IF t.Copies # Nil /\ "Copies" \in desc /\ t.Copies[1].Copies > 0
    THEN SetField(dm, "Copies", ToInt16(t.Copies[1].Copies))
    ELSE dm

ResolveFitToPage(t, desc) ==
  t.FitToPage # Nil /\ "FitToPage" \in desc /\ t.FitToPage[1].Type = "FIT_TO_PAGE"

\* A media-size step that falls back to (no) explicit dimensions instead of failing
\* on a vendor id that does not parse.
ApplyMediaSizeIgnoringParseError(t, desc, dm) == [err |-> FALSE, devMode |-> dm]

\* A media-size step that sets one representation and leaves the other as it was.
ApplyMediaSizeKeepingOther(t, desc, dm) ==
  IF t.MediaSize # Nil /\ "MediaSize" \in desc
    THEN IF t.MediaSize[1].VendorID # <<>>
           THEN LET r == ParseInt16(t.MediaSize[1].VendorID)
                IN  IF r.err
                      THEN [err |-> TRUE, devMode |-> dm]
                      ELSE [err |-> FALSE, devMode |-> SetField(dm, "PaperSize", ToInt16(r.v))]
           ELSE [err |-> FALSE,
                 devMode |-> SetField(SetField(dm,
                               "PaperLength", ToInt16(GoDiv(t.MediaSize[1].HeightMicrons, 10))),
                               "PaperWidth", ToInt16(GoDiv(t.MediaSize[1].WidthMicrons, 10)))]
    ELSE [err |-> FALSE, devMode |-> dm]

ApplyMediaSize(t, desc, dm) ==
  IF t.MediaSize # Nil /\ "MediaSize" \in desc
    THEN IF t.MediaSize[1].VendorID # <<>>
           THEN LET r == ParseInt16(t.MediaSize[1].VendorID)
                IN  IF r.err
                      THEN [err |-> TRUE, devMode |-> dm]
                      ELSE [err |-> FALSE,
                            devMode |-> ClearField(ClearField(
                                          SetField(dm, "PaperSize", ToInt16(r.v)),
                                          "PaperLength"), "PaperWidth")]
           ELSE [err |-> FALSE,
                 devMode |-> SetField(SetField(ClearField(dm, "PaperSize"),
                               "PaperLength", ToInt16(GoDiv(t.MediaSize[1].HeightMicrons, 10))),
                               "PaperWidth", ToInt16(GoDiv(t.MediaSize[1].WidthMicrons, 10)))]
    ELSE [err |-> FALSE, devMode |-> dm]

ApplyCollate(t, desc, dm) ==
  IF t.Collate # Nil /\ "Collate" \in desc
    THEN SetField(dm, "Collate", IF t.Collate[1].Collate THEN DMCOLLATE_TRUE ELSE DMCOLLATE_FALSE)
    ELSE dm

\* Lines 752-811 in order: [err, devMode, fitToPage].  An error returns at once, the
\* settings changed so far kept in the jobContext that is about to be freed.
ResolveTicket(t, desc, dm) ==
  LET c == ApplyColor(t, desc, dm)
      d2 == ApplyDuplex(t, desc, c.devMode)
      d3 == ApplyPageOrientation(t, desc, d2)
      d4 == ApplyCopies(t, desc, d3)
      f == ResolveFitToPage(t, desc)
      m == ApplyMediaSize(t, desc, d4)
  IN  IF c.err
        THEN [err |-> TRUE, devMode |-> c.devMode, fitToPage |-> FALSE]
        ELSE IF m.err
               THEN [err |-> TRUE, devMode |-> m.devMode, fitToPage |-> f]
               ELSE [err |-> FALSE, devMode |-> ApplyCollate(t, desc, m.devMode), fitToPage |-> f]

\* ------------------------------------------------------------ the native resources of one submission
\* "doc" is the spooler document StartDoc opens and EndDoc closes; the others are
\* the handles of the jobContext.
Resources == {"pDoc", "hPrinter", "hDC", "doc", "cSurface", "cContext"}

SeqSet(q) == {q[k] : k \in DOMAIN q}

\* newJobContext, one row per native call that can fail, in order: the call, what
\* it acquires, and the release calls of its error branch.
NewJobContextCalls ==
  << [call |-> "PopplerDocumentNewFromFile", acquires |-> <<"pDoc">>,
      unwind |-> <<>>],
     [call |-> "OpenPrinter", acquires |-> <<"hPrinter">>,
      unwind |-> <<"pDoc">>],
     [call |-> "hPrinter.DocumentPropertiesGet", acquires |-> <<>>,
      unwind |-> <<"hPrinter", "pDoc">>],
     [call |-> "hPrinter.DocumentPropertiesSet", acquires |-> <<>>,
      unwind |-> <<"hPrinter", "pDoc">>],
     [call |-> "CreateDC", acquires |-> <<"hDC">>,
      unwind |-> <<"hPrinter", "pDoc">>],
     [call |-> "hDC.StartDoc", acquires |-> <<"doc">>,
      unwind |-> <<"hDC", "hPrinter", "pDoc">>],
     [call |-> "CairoWin32PrintingSurfaceCreate", acquires |-> <<"cSurface">>,
      unwind |-> <<"doc", "hDC", "hPrinter", "pDoc">>],
     [call |-> "CairoCreateContext", acquires |-> <<"cContext">>,
      unwind |-> <<"cSurface", "doc", "hDC", "hPrinter", "pDoc">> ] >>

RECURSIVE AcquiredBefore(_)
\* What the calls 1..k of newJobContext have acquired, in order.
AcquiredBefore(k) ==
  IF k = 0 THEN <<>> ELSE AcquiredBefore(k - 1) \o NewJobContextCalls[k].acquires

\* newJobContext when its call failAt fails (0: none does).
newJobContext(failAt) ==
  IF failAt = 0
    THEN [err |-> FALSE, acquired |-> AcquiredBefore(Len(NewJobContextCalls)), released |-> <<>>]
    ELSE [err |-> TRUE, acquired |-> AcquiredBefore(failAt - 1),
          released |-> NewJobContextCalls[failAt].unwind]

\* jobContext.free: the release calls in order; each but the last returns an error
\* value, and free returns at the first error.
FreeCalls ==
  << [call |-> "cContext.Destroy", releases |-> "cContext", fails |-> TRUE],
     [call |-> "cSurface.Destroy", releases |-> "cSurface", fails |-> TRUE],
     [call |-> "hDC.EndDoc", releases |-> "doc", fails |-> TRUE],
     [call |-> "hDC.DeleteDC", releases |-> "hDC", fails |-> TRUE],
     [call |-> "hPrinter.ClosePrinter", releases |-> "hPrinter", fails |-> TRUE],
     [call |-> "pDoc.Unref", releases |-> "pDoc", fails |-> FALSE] >>

\* The release calls free issues when its call failAt returns an error (0: none).
free(failAt) ==
  [k \in 1..(IF failAt = 0 THEN Len(FreeCalls) ELSE failAt) |-> FreeCalls[k].releases]

\* printPage: the native calls that can fail, in order; the page is rendered
\* (pPage.RenderForPrinting) between Scale and Restore.
PrintPageCalls ==
  << "hPrinter.DocumentPropertiesSet", "hDC.ResetDC", "hDC.SetGraphicsMode",
     "hDC.SetWorldTransform", "hDC.StartPage", "cContext.Save", "pPage.GetSize",
     "cContext.IdentityMatrix", "cContext.Translate", "cContext.Scale",
     "cContext.Restore", "cSurface.ShowPage" >>

RenderAfter == 10

\* printPage when its call failAt fails (0: none does).
printPage(failAt) ==
  [err |-> failAt # 0, rendered |-> (failAt = 0 \/ failAt > RenderAfter)]

\* The calls that can fail anywhere in Print.
AllFaults ==
  {NewJobContextCalls[k].call : k \in DOMAIN NewJobContextCalls}
    \cup {FreeCalls[k].call : k \in {j \in DOMAIN FreeCalls : FreeCalls[j].fails}}
    \cup SeqSet(PrintPageCalls) \cup {"hPrinter.GetJob", "hPrinter.SetJobCommand"}

\* ------------------------------------------------------------ convertJobState
\* The named bits of a job's status; JOB_STATUS_OTHER stands for the bits of the
\* 32-bit field that have no name.
JobStatusBits ==
  {"JOB_STATUS_PAUSED", "JOB_STATUS_ERROR", "JOB_STATUS_DELETING", "JOB_STATUS_SPOOLING",
   "JOB_STATUS_PRINTING", "JOB_STATUS_OFFLINE", "JOB_STATUS_PAPEROUT", "JOB_STATUS_PRINTED",
   "JOB_STATUS_DELETED", "JOB_STATUS_BLOCKED_DEVQ", "JOB_STATUS_USER_INTERVENTION",
   "JOB_STATUS_RESTART", "JOB_STATUS_COMPLETE", "JOB_STATUS_RETAINED",
   "JOB_STATUS_RENDERING_LOCALLY", "JOB_STATUS_OTHER"}

\* w & (b1 | b2 | ...) != 0
Has(w, bits) == w \cap bits # {}

\* A model.JobState: its type and its three optional causes.
JobState(type, deviceAction, userAction, deviceState) ==
  [Type |-> type, DeviceActionCause |-> deviceAction, UserActionCause |-> userAction,
   DeviceStateCause |-> deviceState]

\* convertJobState with the error rule moved ahead of the others.
convertJobStateErrorFirst(w) ==
  IF Has(w, {"JOB_STATUS_ERROR"})
    THEN JobState("ABORTED", Some("PRINT_FAILURE"), Nil, Nil)
  ELSE IF Has(w, {"JOB_STATUS_SPOOLING", "JOB_STATUS_PRINTING"})
    THEN JobState("IN_PROGRESS", Nil, Nil, Nil)
  ELSE IF Has(w, {"JOB_STATUS_PRINTED", "JOB_STATUS_COMPLETE"}) \/ Has(w, {"JOB_STATUS_PAUSED"})
          \/ w = {}
    THEN JobState("DONE", Nil, Nil, Nil)
  ELSE IF Has(w, {"JOB_STATUS_DELETING", "JOB_STATUS_DELETED"})
    THEN JobState("ABORTED", Nil, Some("CANCELLED"), Nil)
  ELSE IF Has(w, {"JOB_STATUS_OFFLINE", "JOB_STATUS_PAPEROUT", "JOB_STATUS_BLOCKED_DEVQ",
                  "JOB_STATUS_USER_INTERVENTION"})
    THEN JobState("STOPPED", Nil, Nil, Some("OTHER"))
  ELSE JobState("ABORTED", Some("OTHER"), Nil, Nil)

convertJobState(w) ==
  IF Has(w, {"JOB_STATUS_SPOOLING", "JOB_STATUS_PRINTING"})
    THEN JobState("IN_PROGRESS", Nil, Nil, Nil)
  ELSE IF Has(w, {"JOB_STATUS_PRINTED", "JOB_STATUS_COMPLETE"})
    THEN JobState("DONE", Nil, Nil, Nil)
  ELSE IF Has(w, {"JOB_STATUS_PAUSED"}) \/ w = {}
    THEN JobState("DONE", Nil, Nil, Nil)
  ELSE IF Has(w, {"JOB_STATUS_ERROR"})
    THEN JobState("ABORTED", Some("PRINT_FAILURE"), Nil, Nil)
  ELSE IF Has(w, {"JOB_STATUS_DELETING", "JOB_STATUS_DELETED"})
    THEN JobState("ABORTED", Nil, Some("CANCELLED"), Nil)
  ELSE IF Has(w, {"JOB_STATUS_OFFLINE", "JOB_STATUS_PAPEROUT", "JOB_STATUS_BLOCKED_DEVQ",
                  "JOB_STATUS_USER_INTERVENTION"})
    THEN JobState("STOPPED", Nil, Nil, Some("OTHER"))
  ELSE JobState("ABORTED", Some("OTHER"), Nil, Nil)

\* ------------------------------------------------------------ convertPrinterState
\* The named bits of a printer's status and attributes; the _OTHER names stand for
\* the bits convertPrinterState does not look at.
PrinterStatusBits ==
  {"PRINTER_STATUS_PAUSED", "PRINTER_STATUS_ERROR", "PRINTER_STATUS_PENDING_DELETION",
   "PRINTER_STATUS_PAPER_JAM", "PRINTER_STATUS_PAPER_OUT", "PRINTER_STATUS_MANUAL_FEED",
   "PRINTER_STATUS_PAPER_PROBLEM", "PRINTER_STATUS_OFFLINE", "PRINTER_STATUS_IO_ACTIVE",
   "PRINTER_STATUS_BUSY", "PRINTER_STATUS_OUTPUT_BIN_FULL", "PRINTER_STATUS_NOT_AVAILABLE",
   "PRINTER_STATUS_WAITING", "PRINTER_STATUS_INITIALIZING", "PRINTER_STATUS_WARMING_UP",
   "PRINTER_STATUS_TONER_LOW", "PRINTER_STATUS_NO_TONER", "PRINTER_STATUS_PAGE_PUNT",
   "PRINTER_STATUS_USER_INTERVENTION", "PRINTER_STATUS_OUT_OF_MEMORY",
   "PRINTER_STATUS_DOOR_OPEN", "PRINTER_STATUS_SERVER_UNKNOWN",
   "PRINTER_STATUS_POWER_SAVE", "PRINTER_STATUS_PRINTING", "PRINTER_STATUS_PROCESSING",
   "PRINTER_STATUS_OTHER"}

PrinterAttributeBits == {"PRINTER_ATTRIBUTE_WORK_OFFLINE", "PRINTER_ATTRIBUTE_OTHER"}

\* The if-statements after the printing/processing one, in order: the bits tested,
\* whether the branch sets the state to stopped, and the item it appends.
PrinterStateRules ==
  << [status |-> {"PRINTER_STATUS_PAUSED"}, attributes |-> {}, stops |-> TRUE,
      item |-> [State |-> "WARNING", DescriptionLocalized |-> "printer paused"]],
     [status |-> {"PRINTER_STATUS_ERROR"}, attributes |-> {}, stops |-> TRUE,
      item |-> [State |-> "ERROR", DescriptionLocalized |-> "printer error"]],
     [status |-> {"PRINTER_STATUS_PENDING_DELETION"}, attributes |-> {}, stops |-> TRUE,
      item |-> [State |-> "ERROR", DescriptionLocalized |-> "printer is being deleted"]],
     [status |-> {"PRINTER_STATUS_PAPER_JAM"}, attributes |-> {}, stops |-> TRUE,
      item |-> [State |-> "ERROR", DescriptionLocalized |-> "paper jam"]],
     [status |-> {"PRINTER_STATUS_PAPER_OUT"}, attributes |-> {}, stops |-> TRUE,
      item |-> [State |-> "ERROR", DescriptionLocalized |-> "paper out"]],
     [status |-> {"PRINTER_STATUS_MANUAL_FEED"}, attributes |-> {}, stops |-> FALSE,
      item |-> [State |-> "INFO", DescriptionLocalized |-> "manual feed mode"]],
     [status |-> {"PRINTER_STATUS_PAPER_PROBLEM"}, attributes |-> {}, stops |-> TRUE,
      item |-> [State |-> "ERROR", DescriptionLocalized |-> "paper problem"]],
     [status |-> {"PRINTER_STATUS_OFFLINE"}, attributes |-> {"PRINTER_ATTRIBUTE_WORK_OFFLINE"}, stops |-> TRUE,
      item |-> [State |-> "ERROR", DescriptionLocalized |-> "printer is offline"]],
     [status |-> {"PRINTER_STATUS_IO_ACTIVE"}, attributes |-> {}, stops |-> FALSE,
      item |-> [State |-> "INFO", DescriptionLocalized |-> "active I/O state"]],
     [status |-> {"PRINTER_STATUS_BUSY"}, attributes |-> {}, stops |-> FALSE,
      item |-> [State |-> "INFO", DescriptionLocalized |-> "busy"]],
     [status |-> {"PRINTER_STATUS_OUTPUT_BIN_FULL"}, attributes |-> {}, stops |-> TRUE,
      item |-> [State |-> "ERROR", DescriptionLocalized |-> "output bin is full"]],
     [status |-> {"PRINTER_STATUS_NOT_AVAILABLE"}, attributes |-> {}, stops |-> TRUE,
      item |-> [State |-> "ERROR", DescriptionLocalized |-> "printer not available"]],
     [status |-> {"PRINTER_STATUS_WAITING"}, attributes |-> {}, stops |-> FALSE,
      item |-> [State |-> "ERROR", DescriptionLocalized |-> "waiting"]],
     [status |-> {"PRINTER_STATUS_INITIALIZING"}, attributes |-> {}, stops |-> FALSE,
      item |-> [State |-> "INFO", DescriptionLocalized |-> "intitializing"]],
     [status |-> {"PRINTER_STATUS_WARMING_UP"}, attributes |-> {}, stops |-> FALSE,
      item |-> [State |-> "INFO", DescriptionLocalized |-> "warming up"]],
     [status |-> {"PRINTER_STATUS_TONER_LOW"}, attributes |-> {}, stops |-> FALSE,
      item |-> [State |-> "WARNING", DescriptionLocalized |-> "toner low"]],
     [status |-> {"PRINTER_STATUS_NO_TONER"}, attributes |-> {}, stops |-> TRUE,
      item |-> [State |-> "ERROR", DescriptionLocalized |-> "no toner"]],
     [status |-> {"PRINTER_STATUS_PAGE_PUNT"}, attributes |-> {}, stops |-> TRUE,
      item |-> [State |-> "ERROR", DescriptionLocalized |-> "cannot print the current page"]],
     [status |-> {"PRINTER_STATUS_USER_INTERVENTION"}, attributes |-> {}, stops |-> TRUE,
      item |-> [State |-> "ERROR", DescriptionLocalized |-> "user intervention required"]],
     [status |-> {"PRINTER_STATUS_OUT_OF_MEMORY"}, attributes |-> {}, stops |-> TRUE,
      item |-> [State |-> "ERROR", DescriptionLocalized |-> "out of memory"]],
     [status |-> {"PRINTER_STATUS_DOOR_OPEN"}, attributes |-> {}, stops |-> TRUE,
      item |-> [State |-> "ERROR", DescriptionLocalized |-> "door open"]],
     [status |-> {"PRINTER_STATUS_SERVER_UNKNOWN"}, attributes |-> {}, stops |-> FALSE,
      item |-> [State |-> "ERROR", DescriptionLocalized |-> "printer status unknown"]],
     [status |-> {"PRINTER_STATUS_POWER_SAVE"}, attributes |-> {}, stops |-> FALSE,
      item |-> [State |-> "INFO", DescriptionLocalized |-> "power save mode"]] >>

\* A branch that sets the state to stopped whatever it reports.
ApplyRuleAlwaysStopping(acc, rule, wsSt, wsAttr) ==
  IF Has(wsSt, rule.status) \/ Has(wsAttr, rule.attributes)
    THEN [State |-> "STOPPED", Item |-> Append(acc.Item, rule.item)]
    ELSE acc

\* One if-statement applied to the state built so far.
ApplyRule(acc, rule, wsSt, wsAttr) ==
  IF Has(wsSt, rule.status) \/ Has(wsAttr, rule.attributes)
    THEN [State |-> IF rule.stops THEN "STOPPED" ELSE acc.State,
          Item |-> Append(acc.Item, rule.item)]
    ELSE acc

RECURSIVE ApplyRules(_, _, _)
\* The state after the first k of them.
ApplyRules(k, wsSt, wsAttr) ==
  IF k = 0
    THEN [State |-> IF Has(wsSt, {"PRINTER_STATUS_PRINTING", "PRINTER_STATUS_PROCESSING"})
                      THEN "PROCESSING" ELSE "IDLE",
          Item |-> <<>>]
    ELSE ApplyRule(ApplyRules(k - 1, wsSt, wsAttr), PrinterStateRules[k], wsSt, wsAttr)

\* A vendor-state list kept when it is empty.
VendorStateKeptEmpty(items) == Some([Item |-> items])

\* The closing step: an empty vendor-state list becomes nil.
VendorStateOf(items) == IF Len(items) = 0 THEN Nil ELSE Some([Item |-> items])

convertPrinterState(wsSt, wsAttr) ==
  LET r == ApplyRules(Len(PrinterStateRules), wsSt, wsAttr)
  IN  [State |-> r.State, VendorState |-> VendorStateOf(r.Item)]

\* ------------------------------------------------------------ strconv.FormatInt, FormatUint
DigitChar(d) ==
  CASE d = 0 -> "0" [] d = 1 -> "1" [] d = 2 -> "2" [] d = 3 -> "3" [] d = 4 -> "4"
    [] d = 5 -> "5" [] d = 6 -> "6" [] d = 7 -> "7" [] d = 8 -> "8" [] d = 9 -> "9"

RECURSIVE FormatUint(_)
\* The decimal digits of n >= 0, the first one not "0" unless n = 0.
FormatUint(n) ==
  IF n < 10 THEN <<DigitChar(n)>> ELSE Append(FormatUint(n \div 10), DigitChar(n % 10))

FormatInt(n) == IF n < 0 THEN <<"-">> \o FormatUint(-n) ELSE FormatUint(n)

\* uint16(x): Go's conversion wraps.
ToUint16(x) == x % 65536

\* ------------------------------------------------------------ convertMediaSize
\* caps holds what the device answers to the capability queries: names (DC_PAPERNAMES),
\* papers (DC_PAPERS) and sizes (DC_PAPERSIZE, the pairs laid out flat: width then
\* length of each paper, in tenths of a millimeter); f is the set of queries that fail.
\* The sizes and their products are 32-bit integers, like the integers of TLC.
MediaSizeOption(name, paper, width, length, def) ==
  [Name |-> "CUSTOM", WidthMicrons |-> width, HeightMicrons |-> length, IsDefault |-> def,
   VendorID |-> FormatUint(paper), CustomDisplayNameLocalized |-> name]

\* The default test of one loop iteration (lines 439-447): by paper code when the
\* device has one, else by length and width, the device's against the option's
\* micrometers.
IsDefaultPaper(dm, paper, width, length) ==
  IF dm.PaperSize # Nil
    THEN ToUint16(dm.PaperSize[1]) = paper
    ELSE /\ dm.PaperLength # Nil /\ dm.PaperLength[1] = length
         /\ dm.PaperWidth # Nil /\ dm.PaperWidth[1] = width

RECURSIVE MediaSizeLoop(_, _, _)
\* [Option, foundDef] after the first k iterations of the loop.
MediaSizeLoop(k, dm, caps) ==
  IF k = 0
    THEN [Option |-> <<>>, foundDef |-> FALSE]
    ELSE LET before == MediaSizeLoop(k - 1, dm, caps)
             width == caps.sizes[2 * k - 1] * 100
             length == caps.sizes[2 * k] * 100
             def == ~before.foundDef /\ IsDefaultPaper(dm, caps.papers[k], width, length)
         IN  IF caps.names[k] = ""
               THEN before
               ELSE [Option |-> Append(before.Option,
                                  MediaSizeOption(caps.names[k], caps.papers[k], width, length, def)),
                     foundDef |-> before.foundDef \/ def]

\* The closing step: without a default found, the first option is the default.
FirstIsDefault(r) ==
  IF ~r.foundDef /\ Len(r.Option) > 0
    THEN [r.Option EXCEPT ![1].IsDefault = TRUE]
    ELSE r.Option

\* [err, mediaSize]
convertMediaSize(dm, caps, f) ==
  IF {"DC_PAPERNAMES", "DC_PAPERS", "DC_PAPERSIZE"} \cap f # {}
    THEN [err |-> TRUE, mediaSize |-> Nil]
    ELSE IF Len(caps.names) # Len(caps.papers) \/ Len(caps.names) # Len(caps.sizes) \div 2
           THEN [err |-> FALSE, mediaSize |-> Nil]
           ELSE [err |-> FALSE,
                 mediaSize |-> Some([Option |->
                                 FirstIsDefault(MediaSizeLoop(Len(caps.names), dm, caps))])]

\* ------------------------------------------------------------ GetPrinters
\* A color group of the two options whatever the device's color setting.
describeColorBothOptions(dm) ==
  IF dm.Color # Nil /\ dm.Color[1] \in {DMCOLOR_COLOR, DMCOLOR_MONOCHROME}
    THEN Some([Option |->
                << [VendorID |-> FormatInt(DMCOLOR_COLOR), Type |-> "STANDARD_COLOR",
                    IsDefault |-> dm.Color[1] = DMCOLOR_COLOR,
                    CustomDisplayNameLocalized |-> "Color"],
                   [VendorID |-> FormatInt(DMCOLOR_MONOCHROME), Type |-> "STANDARD_MONOCHROME",
                    IsDefault |-> dm.Color[1] = DMCOLOR_MONOCHROME,
                    CustomDisplayNameLocalized |-> "Monochrome"] >>])
    ELSE Nil

\* Lines 290-320: Description.Color from the device's color setting.
describeColor(dm) ==
  IF dm.Color # Nil
    THEN IF dm.Color[1] = DMCOLOR_COLOR
           THEN Some([Option |->
                       << [VendorID |-> FormatInt(DMCOLOR_COLOR), Type |-> "STANDARD_COLOR",
                           IsDefault |-> TRUE, CustomDisplayNameLocalized |-> "Color"],
                          [VendorID |-> FormatInt(DMCOLOR_MONOCHROME),
                           Type |-> "STANDARD_MONOCHROME",
                           IsDefault |-> FALSE, CustomDisplayNameLocalized |-> "Monochrome"] >>])
           ELSE IF dm.Color[1] = DMCOLOR_MONOCHROME
                  THEN Some([Option |->
                              << [VendorID |-> FormatInt(DMCOLOR_MONOCHROME),
                                  Type |-> "STANDARD_MONOCHROME",
                                  IsDefault |-> TRUE,
                                  CustomDisplayNameLocalized |-> "Monochrome"] >>])
                  ELSE Nil
    ELSE Nil

\* Lines 322-345.
describeDuplex(dm, caps) ==
  IF dm.Duplex # Nil /\ caps.DC_DUPLEX = 1
    THEN Some([Option |->
                << [Type |-> "NO_DUPLEX", IsDefault |-> dm.Duplex[1] = DMDUP_SIMPLEX],
                   [Type |-> "LONG_EDGE", IsDefault |-> dm.Duplex[1] = DMDUP_VERTICAL],
                   [Type |-> "SHORT_EDGE", IsDefault |-> dm.Duplex[1] = DMDUP_HORIZONTAL] >>])
    ELSE Nil

\* Lines 347-366.
describePageOrientation(dm, caps) ==
  IF dm.Orientation # Nil /\ caps.DC_ORIENTATION \in {90, 270}
    THEN Some([Option |->
                << [Type |-> "PORTRAIT", IsDefault |-> dm.Orientation[1] = DMORIENT_PORTRAIT],
                   [Type |-> "LANDSCAPE", IsDefault |-> dm.Orientation[1] = DMORIENT_LANDSCAPE] >>])
    ELSE Nil

\* Lines 368-379.
describeCopies(dm, caps) ==
  IF dm.Copies # Nil /\ caps.DC_COPIES > 1
    THEN Some([Default |-> dm.Copies[1], Max |-> caps.DC_COPIES])
    ELSE Nil

\* Lines 386-396.
describeCollate(dm, caps) ==
  IF dm.Collate # Nil /\ caps.DC_COLLATE = 1
    THEN Some([Default |-> dm.Collate[1] = DMCOLLATE_TRUE])
    ELSE Nil

\* The capability queries the loop body makes for a device: a query is made only
\* when the device's settings carry the field.
QueriesMade(dm) ==
  (IF dm.Duplex # Nil THEN {"DC_DUPLEX"} ELSE {})
    \cup (IF dm.Orientation # Nil THEN {"DC_ORIENTATION"} ELSE {})
    \cup (IF dm.Copies # Nil THEN {"DC_COPIES"} ELSE {})
    \cup {"DC_PAPERNAMES", "DC_PAPERS", "DC_PAPERSIZE"}
    \cup (IF dm.Collate # Nil THEN {"DC_COLLATE"} ELSE {})

\* The loop body (lines 271-398) for one device: [err, printer].
describePrinter(pi2, f) ==
  IF QueriesMade(pi2.devMode) \cap f # {}
    THEN [err |-> TRUE, printer |-> Nil]
    ELSE [err |-> FALSE,
          printer |-> Some(
            [Name |-> pi2.printerName,
             State |-> convertPrinterState(pi2.status, pi2.attributes),
             Description |->
               [Color |-> describeColor(pi2.devMode),
                Duplex |-> describeDuplex(pi2.devMode, pi2.caps),
                PageOrientation |-> describePageOrientation(pi2.devMode, pi2.caps),
                Copies |-> describeCopies(pi2.devMode, pi2.caps),
                MediaSize |-> convertMediaSize(pi2.devMode, pi2.caps, f).mediaSize,
                Collate |-> describeCollate(pi2.devMode, pi2.caps)]])]

RECURSIVE GetPrintersLoop(_, _, _)
\* [err, printers] after the first k devices.
GetPrintersLoop(k, devices, f) ==
  IF k = 0
    THEN [err |-> FALSE, printers |-> <<>>]
    ELSE LET before == GetPrintersLoop(k - 1, devices, f)
             this == describePrinter(devices[k], f)
         IN  IF before.err \/ this.err
               THEN [err |-> TRUE, printers |-> <<>>]
               ELSE [err |-> FALSE, printers |-> Append(before.printers, this.printer[1])]

\* GetPrinters(): [err, printers]; printers is nil with an error.
getPrinters(devices, f) ==
  IF "EnumPrinters2" \in f
    THEN [err |-> TRUE, printers |-> <<>>]
    ELSE GetPrintersLoop(Len(devices), devices, f)

\* ------------------------------------------------------------ ConcurrentPrinterMap
\* A Go map is a function on the set of its keys; <<>> is the empty (or nil) map.
Tasks == 1..NumTasks

ZeroPrinter == [Name |-> "", Model |-> ""]

RECURSIVE MapOf(_)
\* Refresh's loop: c[printer.Name] = printer for each printer of the list in turn.
MapOf(newPrinters) ==
  IF newPrinters = <<>> THEN <<>>
  ELSE LET n == Len(newPrinters)
           printer == newPrinters[n]
       IN  (printer.Name :> printer) @@ MapOf(SubSeq(newPrinters, 1, n - 1))

\* v, ok := m[key]
Lookup(m, key) ==
  IF key \in DOMAIN m THEN [printer |-> m[key], ok |-> TRUE]
  ELSE [printer |-> ZeroPrinter, ok |-> FALSE]

\* The orders in which a range loop may visit the keys of a map.
Orderings(S) ==
  {q \in [1..Cardinality(S) -> S] : \A j, k \in 1..Cardinality(S) : j # k => q[j] # q[k]}

\* GetAll's loop over a map m into a slice made with n elements, visiting the keys
\* in the order q: [panic, printers], a panic when the index leaves the slice.
RangeInto(n, m, q) ==
  IF Len(q) > n
    THEN [panic |-> TRUE, printers |-> <<>>]
    ELSE [panic |-> FALSE,
          printers |-> [k \in 1..n |-> IF k <= Len(q) THEN m[q[k]] ELSE ZeroPrinter]]

\* sync.RWMutex: [writer, readers, waiting].
UnlockedMutex == [writer |-> Nil, readers |-> {}, waiting |-> {}]

\* Lock returns once no reader and no writer holds the mutex.
CanLock(m) == m.writer = Nil /\ m.readers = {}

\* A read lock granted whatever the writers do.
CanRLockDespiteWriters(m) == TRUE

\* RLock returns once no writer holds the mutex or is blocked in Lock.
CanRLock(m) == m.writer = Nil /\ m.waiting = {}

\* ------------------------------------------------------------ GetJobState, ReleaseJob
\* What a job service returns: an error, or a nil error and (GetJobState) a state.
SvcErr == Some([err |-> TRUE, state |-> Nil])
SvcOk(state) == Some([err |-> FALSE, state |-> state])

\* GetJobState that returns every failed lookup as an error.
getJobStateNoPurgedCase(openOutcome, lookup, status) ==
  IF openOutcome # "ok" \/ lookup # "ok" THEN SvcErr ELSE SvcOk(Some(convertJobState(status)))

\* GetJobState, given what OpenPrinter and GetJob returned and the status GetJob read.
getJobState(openOutcome, lookup, status) ==
  IF openOutcome # "ok"
    THEN SvcErr
    ELSE IF lookup # "ok"
           THEN IF lookup = "ERROR_INVALID_PARAMETER"
                  THEN SvcOk(Some(JobState("ABORTED", Some("OTHER"), Nil, Nil)))
                  ELSE SvcErr
           ELSE SvcOk(Some(convertJobState(status)))

\* hPrinter.EnumJobs1(): the call fails or lists the jobs.
EnumJobs1Outcome(fault) == IF fault THEN "ERROR_OTHER" ELSE "ok"

\* The hPrinter a service holds after OpenPrinter(printerName).
OpenPrinter(openOutcome) == IF openOutcome = "ok" THEN "open" ELSE "nil"

\* What JobList returns: the jobs and the error.
SvcJobs(jobs, err) == Some([err |-> err, jobs |-> jobs])

\* JobList, given what OpenPrinter and EnumJobs1 returned and the spooler's job.
jobList(openOutcome, lookup, exists, status) ==
  IF openOutcome # "ok"
    THEN SvcJobs(<<>>, TRUE)
    ELSE IF lookup # "ok"
           THEN SvcJobs(<<>>, TRUE)
           ELSE SvcJobs(IF exists THEN <<[Status |-> status]>> ELSE <<>>, FALSE)

\* A ReleaseJob that releases whatever status it has read.
ReleaseAlways(status) == TRUE

\* Whether ReleaseJob issues the release command for the status it has read.
ReleaseWanted(status) == Has(status, {"JOB_STATUS_RETAINED"})

\* ------------------------------------------------------------ the semaphore
SemCanAcquire(s) == s < nativeJobQueueSize
SemAcquire(s) == s + 1
SemRelease(s) == s - 1

\* ------------------------------------------------------------ inputs
AllGroups ==
  {"Color", "Duplex", "PageOrientation", "Copies", "FitToPage", "MediaSize", "Collate"}

EmptyTicket ==
  [Color |-> Nil, Duplex |-> Nil, PageOrientation |-> Nil, Copies |-> Nil,
   FitToPage |-> Nil, MediaSize |-> Nil, Collate |-> Nil]

\* The ticket App.AddJob submits.
AddJobTicket == [EmptyTicket EXCEPT !.Copies = Some([Copies |-> 1])]

\* The settings DocumentPropertiesGet reads from the device.
DeviceDevMode ==
  [Color |-> Some(DMCOLOR_COLOR), Duplex |-> Some(DMDUP_SIMPLEX),
   Orientation |-> Some(DMORIENT_PORTRAIT), Copies |-> Some(1),
   PaperSize |-> Some(1), PaperLength |-> Nil, PaperWidth |-> Nil,
   Collate |-> Some(DMCOLLATE_FALSE)]

PrintTickets ==
  { AddJobTicket,
    [EmptyTicket EXCEPT !.Color = Some([Type |-> "CUSTOM_COLOR", VendorID |-> <<"x">>])],
    [EmptyTicket EXCEPT !.Color = Some([Type |-> "STANDARD_MONOCHROME", VendorID |-> <<"x">>]),
                        !.MediaSize = Some([VendorID |-> <<"9", ".", "5">>,
                                            WidthMicrons |-> 0, HeightMicrons |-> 0])],
    [EmptyTicket EXCEPT !.MediaSize = Some([VendorID |-> <<"9">>,
                                            WidthMicrons |-> 210000, HeightMicrons |-> 297000]),
                        !.FitToPage = Some([Type |-> "FIT_TO_PAGE"])] }

\* The values a ticket may carry for each attribute: those with a native mapping,
\* some without, vendor ids that parse and that do not, counts of either sign.
TicketItems ==
  [Color |-> {[Type |-> ty, VendorID |-> id] :
                ty \in {"STANDARD_COLOR", "STANDARD_MONOCHROME", "CUSTOM_COLOR", "AUTO"},
                id \in {<<>>, <<"3">>, <<"x">>}},
   Duplex |-> {[Type |-> ty] : ty \in {"NO_DUPLEX", "LONG_EDGE", "SHORT_EDGE", ""}},
   PageOrientation |-> {[Type |-> ty] : ty \in {"PORTRAIT", "LANDSCAPE", "AUTO"}},
   Copies |-> {[Copies |-> n] : n \in {-1, 0, 1, 3}},
   FitToPage |-> {[Type |-> ty] : ty \in {"FIT_TO_PAGE", "NO_FITTING"}},
   MediaSize |-> {[VendorID |-> <<"9">>, WidthMicrons |-> 210000, HeightMicrons |-> 297000],
                  [VendorID |-> <<"9", ".", "5">>, WidthMicrons |-> 0, HeightMicrons |-> 0],
                  [VendorID |-> <<>>, WidthMicrons |-> 210000, HeightMicrons |-> 297000],
                  [VendorID |-> <<>>, WidthMicrons |-> 297000, HeightMicrons |-> 420000]},
   Collate |-> {[Collate |-> b] : b \in BOOLEAN}]

OptionalItems(a) == {Nil} \cup {Some(x) : x \in TicketItems[a]}

\* The tickets that specify at most k attributes.
TicketsOfAtMost(k) ==
  {t \in [Color : OptionalItems("Color"), Duplex : OptionalItems("Duplex"),
          PageOrientation : OptionalItems("PageOrientation"), Copies : OptionalItems("Copies"),
          FitToPage : OptionalItems("FitToPage"), MediaSize : OptionalItems("MediaSize"),
          Collate : OptionalItems("Collate")] :
     Cardinality({a \in AllGroups : t[a] # Nil}) <= k}

\* Settings of a device on a custom paper size.
CustomPaperDevMode ==
  [DeviceDevMode EXCEPT !.PaperSize = Nil, !.PaperLength = Some(2970), !.PaperWidth = Some(2100),
                        !.Copies = Some(2)]

\* The capabilities a device answers the queries with: a plain device and one with
\* every option.
PlainCaps ==
  [DC_DUPLEX |-> 0, DC_ORIENTATION |-> 0, DC_COPIES |-> 1, DC_COLLATE |-> 0,
   names |-> <<"A4">>, papers |-> <<9>>, sizes |-> <<2100, 2970>>]

FullCaps ==
  [DC_DUPLEX |-> 1, DC_ORIENTATION |-> 90, DC_COPIES |-> 99, DC_COLLATE |-> 1,
   names |-> <<"Letter", "A4">>, papers |-> <<1, 9>>, sizes |-> <<2159, 2794, 2100, 2970>>]

\* The devices EnumPrinters2 may report: the color setting absent, monochrome,
\* color or a driver's own value, the duplex setting absent or present.
Devices ==
  {[printerName |-> "printer", status |-> {}, attributes |-> {},
    devMode |-> [DeviceDevMode EXCEPT !.Color = col, !.Duplex = dup, !.PaperSize = Some(9)],
    caps |-> cp] :
     col \in {Nil, Some(DMCOLOR_MONOCHROME), Some(DMCOLOR_COLOR), Some(3)},
     dup \in {Nil, Some(DMDUP_VERTICAL)},
     cp \in {PlainCaps, FullCaps}}

RECURSIVE SeqsOfAtMost(_, _)
\* The sequences over S of length at most k.
SeqsOfAtMost(S, k) ==
  IF k = 0 THEN {<<>>}
  ELSE LET shorter == SeqsOfAtMost(S, k - 1)
       IN  shorter \cup {Append(q, x) : q \in shorter, x \in S}

GetPrintersCalls ==
  {"EnumPrinters2", "DC_DUPLEX", "DC_ORIENTATION", "DC_COPIES", "DC_PAPERNAMES", "DC_PAPERS",
   "DC_PAPERSIZE", "DC_COLLATE"}

\* Papers a driver may list: [name, paper, width, length], the sizes in tenths of a
\* millimeter; one has an empty name, one is a hundredth of A4 in each dimension.
Papers ==
  { [name |-> "Letter", paper |-> 1, width |-> 2159, length |-> 2794],
    [name |-> "A4", paper |-> 9, width |-> 2100, length |-> 2970],
    [name |-> "", paper |-> 5, width |-> 2159, length |-> 3556],
    [name |-> "Label", paper |-> 256, width |-> 21, length |-> 29] }

RECURSIVE FlatSizes(_)
\* The sizes of a list of papers as DC_PAPERSIZE lays them out.
FlatSizes(q) ==
  IF q = <<>> THEN <<>>
  ELSE FlatSizes(SubSeq(q, 1, Len(q) - 1)) \o <<q[Len(q)].width, q[Len(q)].length>>

\* The answers to the three queries for a list of papers, and the answers with the
\* last name, the last paper or the last size pair missing.
PaperCaps(q) ==
  LET whole == [names |-> [k \in DOMAIN q |-> q[k].name],
                papers |-> [k \in DOMAIN q |-> q[k].paper],
                sizes |-> FlatSizes(q)]
      n == Len(q)
  IN  {whole} \cup
        (IF n = 0 THEN {}
         ELSE {[whole EXCEPT !.names = SubSeq(whole.names, 1, n - 1)],
               [whole EXCEPT !.papers = SubSeq(whole.papers, 1, n - 1)],
               [whole EXCEPT !.sizes = SubSeq(whole.sizes, 1, 2 * n - 2)]})

\* The paper settings of a device: a paper code or none, explicit dimensions or none.
PaperDevModes ==
  {[DeviceDevMode EXCEPT !.PaperSize = sz, !.PaperLength = dim[1], !.PaperWidth = dim[2]] :
     sz \in {Nil, Some(9), Some(7)},
     dim \in {<<Nil, Nil>>, <<Some(2970), Some(2100)>>, <<Some(2900), Some(2100)>>,
              <<Some(2970), Nil>>}}

\* The printers lists are made of, and the lists Refresh is called with: one of them
\* names a printer twice.
PrinterA1 == [Name |-> "a", Model |-> "m1"]
PrinterA2 == [Name |-> "a", Model |-> "m2"]
PrinterB1 == [Name |-> "b", Model |-> "m1"]

RefreshLists ==
  { <<>>, <<PrinterA1>>, <<PrinterA2, PrinterB1>>, <<PrinterB1, PrinterA1, PrinterA2>> }

\* The calls a task makes on the map.
CpmCalls ==
  {[op |-> "Refresh", arg |-> l] : l \in RefreshLists}
    \cup {[op |-> "GetByNativeName", arg |-> n] : n \in {"a", "b"}}
    \cup {[op |-> "GetByGCPID", arg |-> "a"], [op |-> "GetAll", arg |-> ""]}

\* The statuses GetJob may report for the job of a running Print.
JobStatusSamples ==
  { {}, {"JOB_STATUS_PAUSED"}, {"JOB_STATUS_SPOOLING"},
    {"JOB_STATUS_PAUSED", "JOB_STATUS_PRINTING"} }

ErrReturn == Some([err |-> TRUE, jobID |-> 0])
OkReturn(p) == Some([err |-> FALSE, jobID |-> p])

\* The failure points of a list of calls this run allows, and 0 for no failure.
FailChoices(calls) == {0} \cup {k \in DOMAIN calls : calls[k] \in faults}

\* ------------------------------------------------------------ Print
\* printer.NativeJobSemaphore.Acquire(): blocks while no slot is free.
Acquire(p) ==
  /\ pc[p] = "Acquire"
  /\ SemCanAcquire(sem)
  /\ sem' = SemAcquire(sem)
  /\ pc' = [pc EXCEPT ![p] = "newJobContext"]
  /\ UNCHANGED << faults, ticket, description, nPages, open, devMode, fitToPage, i,
                  acquired, released, rendered, ji1, cmds, ret >>
  /\ UNCHANGED NotPrint

\* A Print whose early error returns skip the deferred Release().
ReturnToSkippingRelease(freeDeferred) ==
  IF freeDeferred THEN "free" ELSE "returned"

\* Where a "return" of Print goes: to the deferred jobContext.free() once
\* newJobContext has succeeded, else straight to the deferred Release().
ReturnTo(freeDeferred) == IF freeDeferred THEN "free" ELSE "Release"

\* The nil-ticket check, then newJobContext.
NewJobContext(p) ==
  /\ pc[p] = "newJobContext"
  /\ IF ticket[p] = Nil
       THEN /\ ret' = [ret EXCEPT ![p] = ErrReturn]
            /\ pc' = [pc EXCEPT ![p] = ReturnTo(FALSE)]
            /\ UNCHANGED << open, devMode, acquired, released >>
       ELSE \E failAt \in FailChoices([k \in DOMAIN NewJobContextCalls |->
                                          NewJobContextCalls[k].call]) :
              LET r == newJobContext(failAt)
              IN  /\ acquired' = [acquired EXCEPT ![p] = r.acquired]
                  /\ released' = [released EXCEPT ![p] = r.released]
                  /\ open' = [open EXCEPT ![p] = SeqSet(r.acquired) \ SeqSet(r.released)]
                  /\ IF r.err
                       THEN /\ ret' = [ret EXCEPT ![p] = ErrReturn]
                            /\ pc' = [pc EXCEPT ![p] = ReturnTo(FALSE)]
                            /\ UNCHANGED devMode
                       ELSE /\ devMode' = [devMode EXCEPT ![p] = Some(DeviceDevMode)]
                            /\ pc' = [pc EXCEPT ![p] = "ticket"]
                            /\ UNCHANGED ret
  /\ UNCHANGED << sem, faults, ticket, description, nPages, fitToPage, i, rendered, ji1, cmds >>
  /\ UNCHANGED NotPrint

\* The ticket applied to jobContext.devMode.
Ticket(p) ==
  /\ pc[p] = "ticket"
  /\ LET r == ResolveTicket(ticket[p][1], description[p], devMode[p][1])
     IN  /\ devMode' = [devMode EXCEPT ![p] = Some(r.devMode)]
         /\ fitToPage' = [fitToPage EXCEPT ![p] = r.fitToPage]
         /\ IF r.err
              THEN /\ ret' = [ret EXCEPT ![p] = ErrReturn]
                   /\ pc' = [pc EXCEPT ![p] = ReturnTo(TRUE)]
              ELSE /\ pc' = [pc EXCEPT ![p] = "pages"]
                   /\ UNCHANGED ret
  /\ UNCHANGED << sem, faults, ticket, description, nPages, open, i,
                  acquired, released, rendered, ji1, cmds >>
  /\ UNCHANGED NotPrint

\* A page loop that is never entered.
LoopNeverEntered(idx, n) == FALSE

\* The page loop's condition.
LoopContinues(idx, n) == idx < n

\* One iteration of the page loop.
PrintPage(p) ==
  /\ pc[p] = "pages"
  /\ LoopContinues(i[p], nPages[p])
  /\ \E failAt \in FailChoices(PrintPageCalls) :
       LET r == printPage(failAt)
       IN  /\ rendered' = [rendered EXCEPT ![p] = IF r.rendered THEN Append(@, i[p]) ELSE @]
           /\ IF r.err
                THEN /\ ret' = [ret EXCEPT ![p] = ErrReturn]
                     /\ pc' = [pc EXCEPT ![p] = ReturnTo(TRUE)]
                     /\ UNCHANGED i
                ELSE /\ i' = [i EXCEPT ![p] = @ + 1]
                     /\ UNCHANGED << ret, pc >>
  /\ UNCHANGED << sem, faults, ticket, description, nPages, open, devMode, fitToPage,
                  acquired, released, ji1, cmds >>
  /\ UNCHANGED NotPrint

\* After the loop: jobContext.hPrinter.GetJob(jobContext.jobID).
GetJob(p) ==
  /\ pc[p] = "pages"
  /\ ~LoopContinues(i[p], nPages[p])
  /\ \E failAt \in FailChoices(<<"hPrinter.GetJob">>) :
       IF failAt # 0
         THEN /\ ret' = [ret EXCEPT ![p] = ErrReturn]
              /\ pc' = [pc EXCEPT ![p] = ReturnTo(TRUE)]
              /\ UNCHANGED ji1
         ELSE \E st \in JobStatusSamples :
                /\ ji1' = [ji1 EXCEPT ![p] = Some(st)]
                /\ pc' = [pc EXCEPT ![p] = "SetJobCommand"]
                /\ UNCHANGED ret
  /\ UNCHANGED << sem, faults, ticket, description, nPages, open, devMode, fitToPage, i,
                  acquired, released, rendered, cmds >>
  /\ UNCHANGED NotPrint

\* A Print that retains whatever status it has read.
RetainAlways(status) == TRUE

\* Whether Print retains the job whose status it has read.
RetainWanted(status) == "JOB_STATUS_PAUSED" \notin status

\* The retain decision and the final return.
Retain(p) ==
  /\ pc[p] = "SetJobCommand"
  /\ IF RetainWanted(ji1[p][1])
       THEN \E failAt \in FailChoices(<<"hPrinter.SetJobCommand">>) :
              /\ cmds' = [cmds EXCEPT ![p] = Append(@, "JOB_CONTROL_RETAIN")]
              /\ ret' = [ret EXCEPT ![p] = IF failAt # 0 THEN ErrReturn ELSE OkReturn(p)]
       ELSE /\ ret' = [ret EXCEPT ![p] = OkReturn(p)]
            /\ UNCHANGED cmds
  /\ pc' = [pc EXCEPT ![p] = ReturnTo(TRUE)]
  /\ UNCHANGED << sem, faults, ticket, description, nPages, open, devMode, fitToPage, i,
                  acquired, released, rendered, ji1 >>
  /\ UNCHANGED NotPrint

\* The deferred jobContext.free(); its return value is dropped.
Free(p) ==
  /\ pc[p] = "free"
  /\ \E failAt \in FailChoices([k \in DOMAIN FreeCalls |-> FreeCalls[k].call]) :
       LET r == free(failAt)
       IN  /\ released' = [released EXCEPT ![p] = @ \o r]
           /\ open' = [open EXCEPT ![p] = @ \ SeqSet(r)]
  /\ pc' = [pc EXCEPT ![p] = "Release"]
  /\ UNCHANGED << sem, faults, ticket, description, nPages, devMode, fitToPage, i,
                  acquired, rendered, ji1, cmds, ret >>
  /\ UNCHANGED NotPrint

\* The deferred printer.NativeJobSemaphore.Release(), and Print has returned.
Release(p) ==
  /\ pc[p] = "Release"
  /\ sem' = SemRelease(sem)
  /\ pc' = [pc EXCEPT ![p] = "returned"]
  /\ UNCHANGED << faults, ticket, description, nPages, open, devMode, fitToPage, i,
                  acquired, released, rendered, ji1, cmds, ret >>
  /\ UNCHANGED NotPrint

Next ==
  \E p \in Procs :
    \/ Acquire(p)
    \/ NewJobContext(p)
    \/ Ticket(p)
    \/ PrintPage(p)
    \/ GetJob(p)
    \/ Retain(p)
    \/ Free(p)
    \/ Release(p)

\* The other parts at rest.
NoNative == [open |-> "none", lookup |-> "none"]

NoJobs ==
  /\ jobExists = FALSE /\ jobStatus = {}
  /\ svc = "none" /\ svcPc = "done" /\ svcJi1 = Nil /\ svcNative = NoNative
  /\ svcHPrinter = "nil"
  /\ svcCmds = <<>> /\ svcRet = Nil

NoJobState == wsJobStatus = {} /\ jobState = Nil

NoPrinterState == wsStatus = {} /\ wsAttributes = {} /\ printerState = Nil

NoTicket == tkTicket = Nil /\ tkDesc = {} /\ tkDevMode = Nil /\ tkResolved = Nil

NoPrinters == pi2s = <<>> /\ gpFaults = {} /\ gpRet = Nil

NoMediaSize == msDevMode = Nil /\ msCaps = Nil /\ msFaults = {} /\ msRet = Nil

NoCpm ==
  /\ byNativeName = <<>> /\ byGCPID = <<>> /\ mutex = Nil
  /\ cpmPc = <<>> /\ cpmOp = <<>> /\ cpmLocal = <<>> /\ cpmRet = <<>>
  /\ lastList = <<>> /\ viewList = <<>>

NoScale == scIn = Nil /\ scOut = Nil

\* The locals of every call before it has run.
InitLocals ==
  /\ sem = 0
  /\ open = [p \in Procs |-> {}]
  /\ devMode = [p \in Procs |-> Nil]
  /\ fitToPage = [p \in Procs |-> FALSE]
  /\ i = [p \in Procs |-> 0]
  /\ acquired = [p \in Procs |-> <<>>]
  /\ released = [p \in Procs |-> <<>>]
  /\ rendered = [p \in Procs |-> <<>>]
  /\ ji1 = [p \in Procs |-> Nil]
  /\ cmds = [p \in Procs |-> <<>>]

\* One submission, any ticket, any fault; the other tasks have returned from a
\* Print with a nil ticket.
Init ==
  /\ faults = AllFaults
  /\ pc = [p \in Procs |-> IF p = 1 THEN "Acquire" ELSE "returned"]
  /\ ticket \in [Procs -> {Nil} \cup {Some(t) : t \in PrintTickets}]
  /\ \A p \in Procs \ {1} : ticket[p] = Nil
  /\ description \in [Procs -> {AllGroups, {}}]
  /\ \A p \in Procs \ {1} : description[p] = {}
  /\ nPages \in [Procs -> 0..MaxPages]
  /\ \A p \in Procs \ {1} : nPages[p] = 0
  /\ ret = [p \in Procs |-> IF p = 1 THEN Nil ELSE ErrReturn]
  /\ InitLocals
  /\ NoJobs /\ NoJobState /\ NoPrinterState /\ NoTicket /\ NoPrinters /\ NoMediaSize /\ NoCpm /\ NoScale

Spec == Init /\ [][Next]_vars

\* NumProcs concurrent submissions of App.AddJob's ticket to one printer.
InitAdmission ==
  /\ faults = {"OpenPrinter", "cSurface.ShowPage"}
  /\ pc = [p \in Procs |-> "Acquire"]
  /\ ticket = [p \in Procs |-> Some(AddJobTicket)]
  /\ description = [p \in Procs |-> AllGroups]
  /\ nPages = [p \in Procs |-> 1]
  /\ ret = [p \in Procs |-> Nil]
  /\ InitLocals
  /\ NoJobs /\ NoJobState /\ NoPrinterState /\ NoTicket /\ NoPrinters /\ NoMediaSize /\ NoCpm /\ NoScale

SpecAdmission == InitAdmission /\ [][Next]_vars

\* ------------------------------------------------------------ the spooler and the job services
\* The statuses the spooler gives the job.
JobStatuses == BoundedSubsets(JobStatusBits, MaxJobBits)

\* The spooler sets or clears one bit of the job's status.
SpoolerSetStatus ==
  /\ jobExists
  /\ \E b \in JobStatusBits :
       /\ jobStatus' = IF b \in jobStatus THEN jobStatus \ {b} ELSE jobStatus \cup {b}
       /\ jobStatus' \in JobStatuses
  /\ UNCHANGED << jobExists, svc, svcPc, svcJi1, svcNative, svcHPrinter, svcCmds, svcRet >>
  /\ UNCHANGED NotJobs

\* The spooler purges the job.
SpoolerPurge ==
  /\ jobExists
  /\ jobExists' = FALSE
  /\ jobStatus' = {}
  /\ UNCHANGED << svc, svcPc, svcJi1, svcNative, svcHPrinter, svcCmds, svcRet >>
  /\ UNCHANGED NotJobs

\* A caller invokes a job service on the job.
SvcCall ==
  /\ svcPc = "done"
  /\ \E s \in {"GetJobState", "ReleaseJob", "JobList"} : svc' = s
  /\ svcPc' = "called"
  /\ svcJi1' = Nil
  /\ svcNative' = NoNative
  /\ svcHPrinter' = "nil"
  /\ svcCmds' = <<>>
  /\ svcRet' = Nil
  /\ UNCHANGED << jobExists, jobStatus >>
  /\ UNCHANGED NotJobs

\* hPrinter.GetJob(jobID): the job is gone (ERROR_INVALID_PARAMETER), the call
\* fails otherwise, or it reads the status.
GetJobOutcome(fault) ==
  IF fault THEN "ERROR_OTHER" ELSE IF ~jobExists THEN "ERROR_INVALID_PARAMETER" ELSE "ok"

\* GetJobState(printerName, jobID).
GetJobState ==
  /\ svc = "GetJobState" /\ svcPc = "called"
  /\ \E openOutcome \in {"ok", "err"}, fault \in BOOLEAN :
       LET lookup == IF openOutcome = "ok" THEN GetJobOutcome(fault) ELSE "none"
       IN  /\ svcNative' = [open |-> openOutcome, lookup |-> lookup]
           /\ svcHPrinter' = OpenPrinter(openOutcome)
           /\ svcRet' = getJobState(openOutcome, lookup, jobStatus)
  /\ svcPc' = "done"
  /\ UNCHANGED << jobExists, jobStatus, svc, svcJi1, svcCmds >>
  /\ UNCHANGED NotJobs

\* ReleaseJob(printerName, jobID) up to its GetJob.
ReleaseJobGetJob ==
  /\ svc = "ReleaseJob" /\ svcPc = "called"
  /\ \E openOutcome \in {"ok", "err"}, fault \in BOOLEAN :
       LET lookup == IF openOutcome = "ok" THEN GetJobOutcome(fault) ELSE "none"
       IN  /\ svcNative' = [open |-> openOutcome, lookup |-> lookup]
           /\ svcHPrinter' = OpenPrinter(openOutcome)
           /\ IF lookup = "ok"
                THEN /\ svcJi1' = Some(jobStatus)
                     /\ svcPc' = "SetJobCommand"
                     /\ UNCHANGED svcRet
                ELSE /\ svcRet' = SvcErr
                     /\ svcPc' = "done"
                     /\ UNCHANGED svcJi1
  /\ UNCHANGED << jobExists, jobStatus, svc, svcCmds >>
  /\ UNCHANGED NotJobs

\* ReleaseJob from the check of the retained bit to its return.  A release the
\* spooler accepts clears the retained bit; it refuses one for a job that is gone.
ReleaseJobSetJobCommand ==
  /\ svc = "ReleaseJob" /\ svcPc = "SetJobCommand"
  /\ IF ReleaseWanted(svcJi1[1])
       THEN \E fails \in (IF jobExists THEN BOOLEAN ELSE {TRUE}) :
              /\ svcCmds' = Append(svcCmds, "JOB_CONTROL_RELEASE")
              /\ svcRet' = IF fails THEN SvcErr ELSE SvcOk(Nil)
              /\ jobStatus' = IF fails THEN jobStatus ELSE jobStatus \ {"JOB_STATUS_RETAINED"}
       ELSE /\ svcRet' = SvcOk(Nil)
            /\ UNCHANGED << svcCmds, jobStatus >>
  /\ svcJi1' = Nil
  /\ svcPc' = "done"
  /\ UNCHANGED << jobExists, svc, svcNative, svcHPrinter >>
  /\ UNCHANGED NotJobs

\* JobList(printerName): the spooler's jobs as EnumJobs1 lists them, with its error.
JobList ==
  /\ svc = "JobList" /\ svcPc = "called"
  /\ \E openOutcome \in {"ok", "err"}, fault \in BOOLEAN :
       LET lookup == IF openOutcome = "ok" THEN EnumJobs1Outcome(fault) ELSE "none"
       IN  /\ svcNative' = [open |-> openOutcome, lookup |-> lookup]
           /\ svcHPrinter' = OpenPrinter(openOutcome)
           /\ svcRet' = jobList(openOutcome, lookup, jobExists, jobStatus)
  /\ svcPc' = "done"
  /\ UNCHANGED << jobExists, jobStatus, svc, svcJi1, svcCmds >>
  /\ UNCHANGED NotJobs

NextJobs ==
  \/ SpoolerSetStatus
  \/ SpoolerPurge
  \/ SvcCall
  \/ GetJobState
  \/ ReleaseJobGetJob
  \/ ReleaseJobSetJobCommand
  \/ JobList

\* ------------------------------------------------------------ the translators applied
ConvertJobState ==
  /\ jobState = Nil
  /\ jobState' = Some(convertJobState(wsJobStatus))
  /\ UNCHANGED wsJobStatus
  /\ UNCHANGED NotJobState

ConvertPrinterState ==
  /\ printerState = Nil
  /\ printerState' = Some(convertPrinterState(wsStatus, wsAttributes))
  /\ UNCHANGED << wsStatus, wsAttributes >>
  /\ UNCHANGED NotPrinterState

\* ------------------------------------------------------------ each part at rest
NoPrint ==
  /\ faults = {}
  /\ pc = [p \in Procs |-> "returned"]
  /\ ticket = [p \in Procs |-> Nil]
  /\ description = [p \in Procs |-> {}]
  /\ nPages = [p \in Procs |-> 0]
  /\ ret = [p \in Procs |-> ErrReturn]
  /\ InitLocals

\* ------------------------------------------------------------ the specifications
\* One job in the spooler's queue, the spooler and the callers of the job services.
InitJobs ==
  /\ jobExists = TRUE /\ jobStatus = {"JOB_STATUS_SPOOLING"}
  /\ svc = "none" /\ svcPc = "done" /\ svcJi1 = Nil /\ svcNative = NoNative
  /\ svcHPrinter = "nil"
  /\ svcCmds = <<>> /\ svcRet = Nil
  /\ NoPrint /\ NoJobState /\ NoPrinterState /\ NoTicket /\ NoPrinters /\ NoMediaSize /\ NoCpm /\ NoScale

SpecJobs == InitJobs /\ [][NextJobs]_vars

\* convertJobState on every status.
InitJobState ==
  /\ wsJobStatus \in SUBSET JobStatusBits
  /\ jobState = Nil
  /\ NoPrint /\ NoJobs /\ NoPrinterState /\ NoTicket /\ NoPrinters /\ NoMediaSize /\ NoCpm /\ NoScale

SpecJobState == InitJobState /\ [][ConvertJobState]_vars

\* Lines 752-811 of Print applied to the settings read from the device.
ResolveJobTicket ==
  /\ tkResolved = Nil
  /\ tkResolved' = Some(ResolveTicket(tkTicket[1], tkDesc, tkDevMode[1]))
  /\ UNCHANGED << tkTicket, tkDesc, tkDevMode >>
  /\ UNCHANGED NotTicket

\* The tickets of at most MaxTicketItems attributes against every Description.
InitTicket ==
  /\ tkTicket \in {Some(t) : t \in TicketsOfAtMost(MaxTicketItems)}
  /\ tkDesc \in SUBSET AllGroups
  /\ tkDevMode \in {Some(DeviceDevMode), Some(CustomPaperDevMode)}
  /\ tkResolved = Nil
  /\ NoPrint /\ NoJobs /\ NoJobState /\ NoPrinterState /\ NoPrinters /\ NoMediaSize /\ NoCpm /\ NoScale

SpecTicket == InitTicket /\ [][ResolveJobTicket]_vars

\* convertPrinterState on the statuses of at most MaxPrinterBits bits, with every
\* attribute field.
InitPrinterState ==
  /\ wsStatus \in BoundedSubsets(PrinterStatusBits, MaxPrinterBits)
  /\ wsAttributes \in SUBSET PrinterAttributeBits
  /\ printerState = Nil
  /\ NoPrint /\ NoJobs /\ NoJobState /\ NoTicket /\ NoPrinters /\ NoMediaSize /\ NoCpm /\ NoScale

SpecPrinterState == InitPrinterState /\ [][ConvertPrinterState]_vars

\* GetPrinters().
GetPrinters ==
  /\ gpRet = Nil
  /\ gpRet' = Some(getPrinters(pi2s, gpFaults))
  /\ UNCHANGED << pi2s, gpFaults >>
  /\ UNCHANGED NotPrinters

\* GetPrinters on up to MaxPrinters devices, no native call or one of them failing.
InitPrinters ==
  /\ pi2s \in SeqsOfAtMost(Devices, MaxPrinters)
  /\ gpFaults \in {{}} \cup {{c} : c \in GetPrintersCalls}
  /\ gpRet = Nil
  /\ NoPrint /\ NoJobs /\ NoJobState /\ NoPrinterState /\ NoTicket /\ NoMediaSize /\ NoCpm /\ NoScale

SpecPrinters == InitPrinters /\ [][GetPrinters]_vars

\* convertMediaSize(printerName, portName, devMode).
ConvertMediaSize ==
  /\ msRet = Nil
  /\ msRet' = Some(convertMediaSize(msDevMode[1], msCaps[1], msFaults))
  /\ UNCHANGED << msDevMode, msCaps, msFaults >>
  /\ UNCHANGED NotMediaSize

\* convertMediaSize on the lists of up to MaxPapers papers, aligned or not, for
\* every paper setting, no query or one of them failing.
InitMediaSize ==
  /\ msDevMode \in {Some(dm) : dm \in PaperDevModes}
  /\ msCaps \in {Some(cp) : cp \in UNION {PaperCaps(q) : q \in SeqsOfAtMost(Papers, MaxPapers)}}
  /\ msFaults \in {{}} \cup {{c} : c \in {"DC_PAPERNAMES", "DC_PAPERS", "DC_PAPERSIZE"}}
  /\ msRet = Nil
  /\ NoPrint /\ NoJobs /\ NoJobState /\ NoPrinterState /\ NoTicket /\ NoPrinters /\ NoCpm /\ NoScale

SpecMediaSize == InitMediaSize /\ [][ConvertMediaSize]_vars

\* ------------------------------------------------------------ ConcurrentPrinterMap: the steps
\* A task calls Refresh, GetByNativeName, GetByGCPID or GetAll.
CpmCall(t) ==
  /\ cpmPc[t] = "idle"
  /\ \E call \in CpmCalls :
       /\ cpmOp' = [cpmOp EXCEPT ![t] = Some(call)]
       /\ cpmPc' = [cpmPc EXCEPT ![t] = IF call.op = "Refresh" THEN "build" ELSE "RLock"]
  /\ UNCHANGED << byNativeName, byGCPID, mutex, cpmLocal, cpmRet, lastList, viewList >>
  /\ UNCHANGED NotCpm

\* Refresh builds its map c and calls Lock.
RefreshBuild(t) ==
  /\ cpmPc[t] = "build"
  /\ cpmLocal' = [cpmLocal EXCEPT ![t] = Some(MapOf(cpmOp[t][1].arg))]
  /\ mutex' = [mutex EXCEPT !.waiting = @ \cup {t}]
  /\ cpmPc' = [cpmPc EXCEPT ![t] = "Lock"]
  /\ UNCHANGED << byNativeName, byGCPID, cpmOp, cpmRet, lastList, viewList >>
  /\ UNCHANGED NotCpm

\* Lock returns.
RefreshLock(t) ==
  /\ cpmPc[t] = "Lock"
  /\ CanLock(mutex)
  /\ mutex' = [mutex EXCEPT !.writer = Some(t), !.waiting = @ \ {t}]
  /\ cpmPc' = [cpmPc EXCEPT ![t] = "swap"]
  /\ UNCHANGED << byNativeName, byGCPID, cpmOp, cpmLocal, cpmRet, lastList, viewList >>
  /\ UNCHANGED NotCpm

\* cpm.byNativeName = c
RefreshSwap(t) ==
  /\ cpmPc[t] = "swap"
  /\ byNativeName' = cpmLocal[t][1]
  /\ lastList' = cpmOp[t][1].arg
  /\ cpmPc' = [cpmPc EXCEPT ![t] = "Unlock"]
  /\ UNCHANGED << byGCPID, mutex, cpmOp, cpmLocal, cpmRet, viewList >>
  /\ UNCHANGED NotCpm

\* The deferred Unlock; Refresh returns and its locals are gone.
RefreshUnlock(t) ==
  /\ cpmPc[t] = "Unlock"
  /\ mutex' = [mutex EXCEPT !.writer = Nil]
  /\ cpmPc' = [cpmPc EXCEPT ![t] = "idle"]
  /\ cpmOp' = [cpmOp EXCEPT ![t] = Nil]
  /\ cpmLocal' = [cpmLocal EXCEPT ![t] = Nil]
  /\ UNCHANGED << byNativeName, byGCPID, cpmRet, lastList, viewList >>
  /\ UNCHANGED NotCpm

\* RLock returns to a read.
CpmRLock(t) ==
  /\ cpmPc[t] = "RLock"
  /\ CanRLock(mutex)
  /\ mutex' = [mutex EXCEPT !.readers = @ \cup {t}]
  /\ viewList' = [viewList EXCEPT ![t] = Some(lastList)]
  /\ cpmPc' = [cpmPc EXCEPT ![t] = IF cpmOp[t][1].op = "GetAll" THEN "make" ELSE "lookup"]
  /\ UNCHANGED << byNativeName, byGCPID, cpmOp, cpmLocal, cpmRet, lastList >>
  /\ UNCHANGED NotCpm

\* GetByNativeName and GetByGCPID look the key up.
CpmLookup(t) ==
  /\ cpmPc[t] = "lookup"
  /\ cpmRet' = [cpmRet EXCEPT ![t] =
                  Some(Lookup(IF cpmOp[t][1].op = "GetByNativeName" THEN byNativeName ELSE byGCPID,
                              cpmOp[t][1].arg))]
  /\ cpmPc' = [cpmPc EXCEPT ![t] = "RUnlock"]
  /\ UNCHANGED << byNativeName, byGCPID, mutex, cpmOp, cpmLocal, lastList, viewList >>
  /\ UNCHANGED NotCpm

\* GetAll makes its slice: len(cpm.byNativeName) elements.
GetAllMake(t) ==
  /\ cpmPc[t] = "make"
  /\ cpmLocal' = [cpmLocal EXCEPT ![t] = Some(Cardinality(DOMAIN byNativeName))]
  /\ cpmPc' = [cpmPc EXCEPT ![t] = "range"]
  /\ UNCHANGED << byNativeName, byGCPID, mutex, cpmOp, cpmRet, lastList, viewList >>
  /\ UNCHANGED NotCpm

\* GetAll's loop over the map, in any order of the keys.
GetAllRange(t) ==
  /\ cpmPc[t] = "range"
  /\ \E q \in Orderings(DOMAIN byNativeName) :
       cpmRet' = [cpmRet EXCEPT ![t] = Some(RangeInto(cpmLocal[t][1], byNativeName, q))]
  /\ cpmPc' = [cpmPc EXCEPT ![t] = "RUnlock"]
  /\ UNCHANGED << byNativeName, byGCPID, mutex, cpmOp, cpmLocal, lastList, viewList >>
  /\ UNCHANGED NotCpm

\* The deferred RUnlock; the read hands cpmRet to its caller and its locals are gone.
CpmRUnlock(t) ==
  /\ cpmPc[t] = "RUnlock"
  /\ mutex' = [mutex EXCEPT !.readers = @ \ {t}]
  /\ cpmPc' = [cpmPc EXCEPT ![t] = "idle"]
  /\ cpmOp' = [cpmOp EXCEPT ![t] = Nil]
  /\ cpmLocal' = [cpmLocal EXCEPT ![t] = Nil]
  /\ cpmRet' = [cpmRet EXCEPT ![t] = Nil]
  /\ viewList' = [viewList EXCEPT ![t] = Nil]
  /\ UNCHANGED << byNativeName, byGCPID, lastList >>
  /\ UNCHANGED NotCpm

NextCpm ==
  \E t \in Tasks :
    \/ CpmCall(t)
    \/ RefreshBuild(t)
    \/ RefreshLock(t)
    \/ RefreshSwap(t)
    \/ RefreshUnlock(t)
    \/ CpmRLock(t)
    \/ CpmLookup(t)
    \/ GetAllMake(t)
    \/ GetAllRange(t)
    \/ CpmRUnlock(t)

\* After NewConcurrentPrinterMap(printers): the map of its first Refresh, byGCPID
\* never assigned.
InitCpm ==
  /\ \E printers \in RefreshLists :
       /\ byNativeName = MapOf(printers)
       /\ lastList = printers
  /\ byGCPID = <<>>
  /\ mutex = UnlockedMutex
  /\ cpmPc = [t \in Tasks |-> "idle"]
  /\ cpmOp = [t \in Tasks |-> Nil]
  /\ cpmLocal = [t \in Tasks |-> Nil]
  /\ cpmRet = [t \in Tasks |-> Nil]
  /\ viewList = [t \in Tasks |-> Nil]
  /\ NoPrint /\ NoJobs /\ NoJobState /\ NoPrinterState /\ NoTicket /\ NoPrinters /\ NoMediaSize /\ NoScale

SpecCpm == InitCpm /\ [][NextCpm]_vars

\* ------------------------------------------------------------ getScaleAndOffset
\* A float64 is modelled as an exact fraction n/d in lowest terms, d > 0: the
\* quotients, products and differences below are the code's, taken without rounding.
RECURSIVE GCD(_, _)
GCD(a, b) == IF b = 0 THEN a ELSE GCD(b, a % b)

Abs(x) == IF x < 0 THEN -x ELSE x

Frac(n, d) ==
  LET g == GCD(Abs(n), Abs(d))
      sg == IF d < 0 THEN -1 ELSE 1
  IN  [n |-> sg * (n \div g), d |-> sg * (d \div g)]

\* float64(x) of an int32.
Float64(x) == [n |-> x, d |-> 1]

\* a / b
Quo(a, b) ==
  LET g1 == GCD(Abs(a.n), Abs(b.n))
      g2 == GCD(a.d, b.d)
  IN  IF a.n = 0 THEN Float64(0)
      ELSE Frac((a.n \div g1) * (b.d \div g2), (a.d \div g2) * (b.n \div g1))

\* a * b
Prod(a, b) ==
  LET g1 == GCD(Abs(a.n), b.d)
      g2 == GCD(Abs(b.n), a.d)
  IN  IF a.n = 0 \/ b.n = 0 THEN Float64(0)
      ELSE Frac((a.n \div g1) * (b.n \div g2), (a.d \div g2) * (b.d \div g1))

\* a - b
Diff(a, b) ==
  LET g == GCD(a.d, b.d)
  IN  Frac(a.n * (b.d \div g) - b.n * (a.d \div g), a.d * (b.d \div g))

\* a < b
Less(a, b) == a.n * b.d < b.n * a.d

\* pixels * 72 in int32 arithmetic, for pixels >= 0: the product modulo 2^32, taken
\* as a signed number. With h = 29826161, the largest factor whose product fits
\* (h * 72 = 2^31 - 56), pixels = q * h + r gives q * 2^31 + (r * 72 - 56 * q).
PixelsTimes72(pixels) ==
  LET h == 29826161
      q == pixels \div h
      r == pixels % h
      low == r * 72 - 56 * q
  IN  IF q % 2 = 0 THEN low
      ELSE IF low >= 0 THEN (low - 2147483647) - 1
      ELSE 2147483647 + (low + 1)

getScaleAndOffset(wDocPoints, hDocPoints, wPaperPixels, hPaperPixels, xMarginPixels, yMarginPixels, wPrintablePixels, hPrintablePixels, xDPI, yDPI, fit) ==
  LET wPaperPoints == Quo(Float64(PixelsTimes72(wPaperPixels)), Float64(xDPI))
      hPaperPoints == Quo(Float64(PixelsTimes72(hPaperPixels)), Float64(yDPI))
      wPrintablePoints == IF fit THEN Quo(Float64(PixelsTimes72(wPrintablePixels)), Float64(xDPI))
                          ELSE wPaperPoints
      hPrintablePoints == IF fit THEN Quo(Float64(PixelsTimes72(hPrintablePixels)), Float64(yDPI))
                          ELSE hPaperPoints
      xScale == Quo(wPrintablePoints, wDocPoints)
      yScale == Quo(hPrintablePoints, hDocPoints)
      scale == IF Less(xScale, yScale) THEN xScale ELSE yScale
  IN  [scale |-> scale,
       xOffsetPoints |-> Quo(Diff(wPaperPoints, Prod(wDocPoints, scale)), Float64(2)),
       yOffsetPoints |-> Quo(Diff(hPaperPoints, Prod(hDocPoints, scale)), Float64(2))]

\* The page sizes of pPage.GetSize(), in points.
DocPoints == {Float64(72), Float64(144), Frac(243, 2)}

\* PHYSICALWIDTH and HORZRES, PHYSICALHEIGHT and VERTRES, in device pixels; the last
\* width is the least whose product with 72 is back above zero in 32 bits.
PaperWidths == {144, 288, 59652324}
PaperHeights == {144, 432}
PrintableWidths == {108, 144}
PrintableHeights == {108, 288}

\* PHYSICALOFFSETX and PHYSICALOFFSETY.
Margins == {<<0, 0>>, <<18, 36>>}

\* LOGPIXELSX and LOGPIXELSY.
DPIs == {<<72, 72>>, <<144, 72>>}

ScaleInputs ==
  [wDocPoints : DocPoints, hDocPoints : DocPoints,
   wPaperPixels : PaperWidths, hPaperPixels : PaperHeights, margins : Margins,
   wPrintablePixels : PrintableWidths, hPrintablePixels : PrintableHeights,
   dpi : DPIs, fitToPage : BOOLEAN]

ScaleAndOffsetOf(in) ==
  getScaleAndOffset(in.wDocPoints, in.hDocPoints, in.wPaperPixels, in.hPaperPixels,
                    in.margins[1], in.margins[2], in.wPrintablePixels, in.hPrintablePixels,
                    in.dpi[1], in.dpi[2], in.fitToPage)

\* printPage from the device caps to the context's transform: IdentityMatrix,
\* Translate(xOffsetPoints, yOffsetPoints), Scale(scale, scale).
PrintPageTransform ==
  /\ scOut = Nil
  /\ LET r == ScaleAndOffsetOf(scIn[1])
     IN  scOut' = Some([scale |-> r.scale,
                        xOffsetPoints |-> r.xOffsetPoints,
                        yOffsetPoints |-> r.yOffsetPoints,
                        matrix |-> [xx |-> r.scale, yy |-> r.scale,
                                    x0 |-> r.xOffsetPoints, y0 |-> r.yOffsetPoints]])
  /\ UNCHANGED scIn
  /\ UNCHANGED NotScale

\* One page on one device, fit-to-page or not.
InitScale ==
  /\ scIn \in {Some(in) : in \in ScaleInputs}
  /\ scOut = Nil
  /\ NoPrint /\ NoJobs /\ NoJobState /\ NoPrinterState /\ NoTicket /\ NoPrinters /\ NoMediaSize /\ NoCpm

SpecScale == InitScale /\ [][PrintPageTransform]_vars

\* ============================================================ the claims
Admitted(p) == pc[p] \in {"newJobContext", "ticket", "pages", "SetJobCommand", "free", "Release"}
AdmittedCount == Cardinality({p \in Procs : Admitted(p)})
Returning(p) == pc[p] \in {"free", "Release", "returned"}

\* C1: at most 2 calls of Print are between Acquire and Release at any time; a call
\* waiting at Acquire can proceed exactly when fewer than 2 are, so the 3rd is
\* blocked while 2 run and admitted once one has returned, with a job id or an error.
C1_AdmitsAtMostTwo ==
  /\ AdmittedCount <= 2
  /\ \A p \in Procs : pc[p] = "Acquire" => ((ENABLED Acquire(p)) <=> AdmittedCount < 2)

\* A 3rd call blocked at Acquire behind two running ones, one of them about to
\* return an error, while a call that has returned left no slot held.
C1_Witness ==
  \E p, q, r \in Procs :
    /\ pc[p] = "Acquire" /\ ~(ENABLED Acquire(p))
    /\ q # r /\ Admitted(q) /\ Admitted(r)
    /\ pc[q] = "free" /\ ret[q] = ErrReturn

\* The place of a resource in the release order the specification states:
\* rendering context, surface, device context, printer handle, document handle.
ReleaseRank(r) ==
  CASE r = "cContext" -> 1 [] r = "cSurface" -> 2 [] r = "doc" -> 3 [] r = "hDC" -> 3
    [] r = "hPrinter" -> 4 [] r = "pDoc" -> 5

\* C2: on every exit path of Print every resource acquired is released, in the
\* order rendering context, surface, device context, printer handle, document
\* handle; the slot is released only after them, and once Print has returned no
\* resource of the submission is open, whatever the release calls return.
C2_ReleasedOnEveryExit ==
  \A p \in Procs :
    /\ pc[p] \in {"Release", "returned"} => open[p] = {}
    /\ \A j, k \in DOMAIN released[p] :
         j < k => ReleaseRank(released[p][j]) <= ReleaseRank(released[p][k])

\* A ticket whose color or media-size vendor id is not an integer.
MalformedVendorID(v) == v # <<>> /\ ParseInt16(v).err
CarriesMalformedVendorID(t) ==
  \/ t.Color # Nil /\ MalformedVendorID(t.Color[1].VendorID)
  \/ t.MediaSize # Nil /\ MalformedVendorID(t.MediaSize[1].VendorID)

\* The malformed vendor ids Print does parse: the group is advertised and, for
\* color, the type has no native mapping.
ParsesMalformedVendorID(t, desc) ==
  \/ /\ t.Color # Nil /\ "Color" \in desc
     /\ t.Color[1].Type \notin DOMAIN colorValueByType
     /\ MalformedVendorID(t.Color[1].VendorID)
  \/ /\ t.MediaSize # Nil /\ "MediaSize" \in desc
     /\ MalformedVendorID(t.MediaSize[1].VendorID)

DeviceResources == {"pDoc", "hPrinter", "hDC", "doc"}

C4_PagesThenRetain ==
  \A p \in Procs :
    /\ Len(rendered[p]) <= nPages[p]
    /\ \A k \in DOMAIN rendered[p] : rendered[p][k] = k - 1
    /\ ji1[p] # Nil => (i[p] = nPages[p] /\ Len(rendered[p]) = nPages[p])
    /\ Returning(p) =>
         /\ cmds[p] = <<"JOB_CONTROL_RETAIN">>
              <=> (i[p] = nPages[p] /\ ji1[p] # Nil /\ "JOB_STATUS_PAUSED" \notin ji1[p][1])
         /\ cmds[p] # <<"JOB_CONTROL_RETAIN">> => cmds[p] = <<>>
         /\ i[p] < nPages[p]
              => /\ ret[p] = ErrReturn /\ ji1[p] = Nil /\ cmds[p] = <<>>
                 /\ Len(rendered[p]) <= i[p] + 1
         /\ ret[p] # ErrReturn => (i[p] = nPages[p] /\ ji1[p] # Nil)

\* A two-page Print that rendered pages 0 and 1, read an unpaused status, issued
\* the retain command and returned the job id.
C4_Witness ==
  \E p \in Procs :
    /\ pc[p] = "returned" /\ nPages[p] = 2 /\ rendered[p] = <<0, 1>>
    /\ ji1[p] # Nil /\ "JOB_STATUS_PAUSED" \notin ji1[p][1]
    /\ cmds[p] = <<"JOB_CONTROL_RETAIN">> /\ ret[p] = OkReturn(p)

\* C5: ReleaseJob issues the release command if and only if the status it has just
\* read has the retained bit set; for a job not retained it issues no command and
\* returns no error; a failure to open the printer or to read the job is returned as
\* an error with no command issued.
C5_ReleaseOnlyRetained ==
  [][ /\ (svc = "ReleaseJob" /\ svcPc = "called" /\ svcPc' = "SetJobCommand")
           => svcJi1' = Some(jobStatus)
      /\ (svc = "ReleaseJob" /\ svcPc # "done" /\ svcPc' = "done")
           => /\ svcCmds' = <<"JOB_CONTROL_RELEASE">>
                   <=> (svcJi1 # Nil /\ "JOB_STATUS_RETAINED" \in svcJi1[1])
              /\ svcCmds' # <<"JOB_CONTROL_RELEASE">> => svcCmds' = <<>>
              /\ (svcJi1 # Nil /\ "JOB_STATUS_RETAINED" \notin svcJi1[1])
                   => svcRet' = SvcOk(Nil) /\ jobStatus' = jobStatus
              /\ (svcNative'.open # "ok" \/ svcNative'.lookup # "ok")
                   => svcRet' = SvcErr /\ svcCmds' = <<>>
    ]_vars

\* ReleaseJob has released a retained job and returned no error.
C5_Witness ==
  /\ svc = "ReleaseJob" /\ svcPc = "done"
  /\ svcCmds = <<"JOB_CONTROL_RELEASE">> /\ svcRet = SvcOk(Nil)

\* The rules of the job-state precedence, first to last.
JobRuleInProgress(w) == Has(w, {"JOB_STATUS_SPOOLING", "JOB_STATUS_PRINTING"})
JobRuleDone(w) == Has(w, {"JOB_STATUS_PRINTED", "JOB_STATUS_COMPLETE"})
JobRulePausedOrZero(w) == "JOB_STATUS_PAUSED" \in w \/ w = {}
JobRuleError(w) == "JOB_STATUS_ERROR" \in w
JobRuleDeleted(w) == Has(w, {"JOB_STATUS_DELETING", "JOB_STATUS_DELETED"})
JobRuleStopped(w) ==
  Has(w, {"JOB_STATUS_OFFLINE", "JOB_STATUS_PAPEROUT", "JOB_STATUS_BLOCKED_DEVQ",
          "JOB_STATUS_USER_INTERVENTION"})

\* C6: convertJobState returns the outcome of the first matching rule in the order
\* in-progress, done, paused-or-zero (done), error (aborted, print failure),
\* deleting/deleted (aborted, user canceled), offline/paper-out/blocked/intervention
\* (stopped, device state other), anything else (aborted, device action other); one
\* state with at most one cause for every input.
C6_JobStatePrecedence ==
  jobState # Nil =>
    LET w == wsJobStatus
        r == jobState[1]
        causes == {c \in {"DeviceActionCause", "UserActionCause", "DeviceStateCause"} : r[c] # Nil}
    IN  /\ JobRuleInProgress(w) => r = JobState("IN_PROGRESS", Nil, Nil, Nil)
        /\ (~JobRuleInProgress(w) /\ JobRuleDone(w)) => r = JobState("DONE", Nil, Nil, Nil)
        /\ (~JobRuleInProgress(w) /\ ~JobRuleDone(w) /\ JobRulePausedOrZero(w))
             => r = JobState("DONE", Nil, Nil, Nil)
        /\ (~JobRuleInProgress(w) /\ ~JobRuleDone(w) /\ ~JobRulePausedOrZero(w) /\ JobRuleError(w))
             => r = JobState("ABORTED", Some("PRINT_FAILURE"), Nil, Nil)
        /\ (~JobRuleInProgress(w) /\ ~JobRuleDone(w) /\ ~JobRulePausedOrZero(w) /\ ~JobRuleError(w)
              /\ JobRuleDeleted(w))
             => r = JobState("ABORTED", Nil, Some("CANCELLED"), Nil)
        /\ (~JobRuleInProgress(w) /\ ~JobRuleDone(w) /\ ~JobRulePausedOrZero(w) /\ ~JobRuleError(w)
              /\ ~JobRuleDeleted(w) /\ JobRuleStopped(w))
             => r = JobState("STOPPED", Nil, Nil, Some("OTHER"))
        /\ (~JobRuleInProgress(w) /\ ~JobRuleDone(w) /\ ~JobRulePausedOrZero(w) /\ ~JobRuleError(w)
              /\ ~JobRuleDeleted(w) /\ ~JobRuleStopped(w))
             => r = JobState("ABORTED", Some("OTHER"), Nil, Nil)
        /\ r.Type \in {"IN_PROGRESS", "DONE", "STOPPED", "ABORTED"}
        /\ Cardinality(causes) <= 1

\* A status with the complete, error and deleted bits set is translated to done,
\* the outcome of its highest-precedence bit.
C6_Witness ==
  /\ wsJobStatus = {"JOB_STATUS_COMPLETE", "JOB_STATUS_ERROR", "JOB_STATUS_DELETED"}
  /\ jobState = Some(JobState("DONE", Nil, Nil, Nil))

\* C7: GetJobState returns aborted with cause device-action-other and no error when
\* the lookup fails with ERROR_INVALID_PARAMETER, so never an error for a purged job
\* unless a call fails otherwise; any other failure of OpenPrinter or of the lookup
\* is an error with no state; and on a successful lookup the state is
\* convertJobState of the job's status at that call.
C7_PurgedJobIsAborted ==
  [][ (svc = "GetJobState" /\ svcPc = "called" /\ svcPc' = "done")
        => /\ (svcNative'.open = "ok" /\ svcNative'.lookup = "ERROR_INVALID_PARAMETER")
                => svcRet' = SvcOk(Some(JobState("ABORTED", Some("OTHER"), Nil, Nil)))
           /\ (svcNative'.open # "ok" \/ svcNative'.lookup = "ERROR_OTHER")
                => svcRet' = SvcErr
           /\ svcNative'.lookup = "ok"
                => jobExists /\ svcRet' = SvcOk(Some(convertJobState(jobStatus)))
           /\ (~jobExists /\ svcNative'.open = "ok" /\ svcNative'.lookup # "ERROR_OTHER")
                => svcNative'.lookup = "ERROR_INVALID_PARAMETER" /\ ~svcRet'[1].err
    ]_vars

\* GetJobState has returned aborted with cause other, and no error, for a purged job.
C7_Witness ==
  /\ svc = "GetJobState" /\ svcPc = "done" /\ ~jobExists
  /\ svcNative.lookup = "ERROR_INVALID_PARAMETER"
  /\ svcRet = SvcOk(Some(JobState("ABORTED", Some("OTHER"), Nil, Nil)))

\* The bits the claim lists as stopping the printer.
ClaimedStoppingBits ==
  {"PRINTER_STATUS_PAUSED", "PRINTER_STATUS_ERROR", "PRINTER_STATUS_PENDING_DELETION",
   "PRINTER_STATUS_PAPER_JAM", "PRINTER_STATUS_PAPER_OUT", "PRINTER_STATUS_PAPER_PROBLEM",
   "PRINTER_STATUS_OUTPUT_BIN_FULL", "PRINTER_STATUS_NOT_AVAILABLE", "PRINTER_STATUS_PAGE_PUNT",
   "PRINTER_STATUS_USER_INTERVENTION", "PRINTER_STATUS_OUT_OF_MEMORY",
   "PRINTER_STATUS_DOOR_OPEN", "PRINTER_STATUS_OFFLINE"}

\* The top-level state that follows from a list of stopping bits.
TopLevelState(stopping, wsSt, wsAttr) ==
  IF Has(wsSt, stopping) \/ "PRINTER_ATTRIBUTE_WORK_OFFLINE" \in wsAttr
    THEN "STOPPED"
    ELSE IF Has(wsSt, {"PRINTER_STATUS_PRINTING", "PRINTER_STATUS_PROCESSING"})
           THEN "PROCESSING"
           ELSE "IDLE"

\* C8 as stated: the state is stopped exactly when paused, one of the listed
\* hard-fault bits, offline or work-offline is set, else processing when printing
\* or processing is set, else idle; no other bit changes it.
C8_StoppedByListedBits ==
  printerState # Nil =>
    printerState[1].State = TopLevelState(ClaimedStoppingBits, wsStatus, wsAttributes)

\* C8 amended: the same with the no-toner bit among the hard faults.
C8_StoppedByListedBitsAndNoToner ==
  printerState # Nil =>
    printerState[1].State
      = TopLevelState(ClaimedStoppingBits \cup {"PRINTER_STATUS_NO_TONER"}, wsStatus, wsAttributes)

\* A printing printer with a paper jam and a busy bit is stopped.
C8_Witness ==
  /\ wsStatus = {"PRINTER_STATUS_PRINTING", "PRINTER_STATUS_PAPER_JAM", "PRINTER_STATUS_BUSY"}
  /\ printerState # Nil /\ printerState[1].State = "STOPPED"

\* The conditions that hold for a status and attributes, as indices of the rules.
ConditionsSet(wsSt, wsAttr) ==
  {k \in DOMAIN PrinterStateRules :
     Has(wsSt, PrinterStateRules[k].status) \/ Has(wsAttr, PrinterStateRules[k].attributes)}

\* C9: the vendor-state list is never present and empty; it is omitted when no
\* condition is set, and else holds one item per condition set, in the order of
\* the conditions, offline and work-offline together giving one item.
C9_VendorStateItems ==
  printerState # Nil =>
    LET r == printerState[1]
        set == ConditionsSet(wsStatus, wsAttributes)
        items == IF r.VendorState = Nil THEN <<>> ELSE r.VendorState[1].Item
    IN  /\ r.VendorState # Nil => r.VendorState[1].Item # <<>>
        /\ set = {} <=> r.VendorState = Nil
        /\ Len(items) = Cardinality(set)
        /\ \A j \in DOMAIN items :
             \E k \in set : /\ items[j] = PrinterStateRules[k].item
                            /\ Cardinality({m \in set : m < k}) = j - 1

\* A paused printer that is offline by status and by attribute and in power-save
\* mode has three items: paused, offline (once), power save.
C9_Witness ==
  /\ wsStatus = {"PRINTER_STATUS_PAUSED", "PRINTER_STATUS_OFFLINE", "PRINTER_STATUS_POWER_SAVE"}
  /\ "PRINTER_ATTRIBUTE_WORK_OFFLINE" \in wsAttributes
  /\ printerState # Nil /\ printerState[1].VendorState # Nil
  /\ Len(printerState[1].VendorState[1].Item) = 3

\* The fields of the device settings each ticket attribute is applied to.
FieldsOf(a) ==
  CASE a = "Color" -> {"Color"}
    [] a = "Duplex" -> {"Duplex"}
    [] a = "PageOrientation" -> {"Orientation"}
    [] a = "Copies" -> {"Copies"}
    [] a = "FitToPage" -> {}
    [] a = "MediaSize" -> {"PaperSize", "PaperLength", "PaperWidth"}
    [] a = "Collate" -> {"Collate"}

\* The attribute's fields are as they were read from the device.
FieldsKept(a) == \A f \in FieldsOf(a) : tkResolved[1].devMode[f] = tkDevMode[1][f]

\* The attribute is specified by the ticket and advertised by the Description.
Applicable(a) == tkTicket[1][a] # Nil /\ a \in tkDesc

\* A vendor id that fails to parse, of an attribute in play, is the only cause of
\* an error.
ErrorOnlyFromVendorID ==
  tkResolved[1].err =>
    \/ Applicable("Color") /\ MalformedVendorID(tkTicket[1].Color[1].VendorID)
    \/ Applicable("MediaSize") /\ MalformedVendorID(tkTicket[1].MediaSize[1].VendorID)

\* What is common to the claim and its amendment: attributes not specified or not
\* advertised, a copies value that is not positive, a duplex or an orientation
\* with no native mapping.
FrameOfIgnoredAttributes ==
  /\ \A a \in AllGroups : ~Applicable(a) => FieldsKept(a)
  /\ ~Applicable("FitToPage") => ~tkResolved[1].fitToPage
  /\ ErrorOnlyFromVendorID
  /\ (tkTicket[1].Copies # Nil /\ tkTicket[1].Copies[1].Copies <= 0) => FieldsKept("Copies")
  /\ (tkTicket[1].Duplex # Nil /\ tkTicket[1].Duplex[1].Type \notin DOMAIN duplexValueByType)
       => FieldsKept("Duplex")
  /\ (tkTicket[1].PageOrientation # Nil
        /\ tkTicket[1].PageOrientation[1].Type \notin DOMAIN pageOrientationByType)
       => FieldsKept("PageOrientation")

Described ==
  IF gpRet # Nil /\ ~gpRet[1].err
    THEN {[printer |-> gpRet[1].printers[k], pi2 |-> pi2s[k]] : k \in DOMAIN pi2s}
    ELSE {}

ColorOptionFor(type, opts) == {k \in DOMAIN opts : opts[k].Type = type}

\* In a color group exactly one option is the default, and it is the one of the
\* device's active color setting.
OneDefaultMatchingSetting(d) ==
  LET opts == d.printer.Description.Color[1].Option
  IN  /\ Cardinality({k \in DOMAIN opts : opts[k].IsDefault}) = 1
      /\ \A k \in DOMAIN opts :
           opts[k].IsDefault => ParseInt16(opts[k].VendorID).v = d.pi2.devMode.Color[1]

\* C11 as stated: Color is in a Description only for a device whose setting is the
\* color mode, and then it has exactly the options color and monochrome, one of them
\* the default, matching the device's setting; never a group of a single option.
C11_ColorGroupHasBothOptions ==
  \A d \in Described :
    d.printer.Description.Color # Nil =>
      LET opts == d.printer.Description.Color[1].Option
      IN  /\ d.pi2.devMode.Color = Some(DMCOLOR_COLOR)
          /\ Len(opts) = 2
          /\ Cardinality(ColorOptionFor("STANDARD_COLOR", opts)) = 1
          /\ Cardinality(ColorOptionFor("STANDARD_MONOCHROME", opts)) = 1
          /\ OneDefaultMatchingSetting(d)

\* C11 amended: Color is in a Description exactly when the device's color setting is
\* color or monochrome; for color it has the two options color (default) and
\* monochrome, for monochrome the single option monochrome (default); in both,
\* exactly one option is the default and it matches the device's setting.
C11_ColorGroupBySetting ==
  \A d \in Described :
    LET col == d.printer.Description.Color
        set == d.pi2.devMode.Color
    IN  /\ col # Nil <=> set \in {Some(DMCOLOR_COLOR), Some(DMCOLOR_MONOCHROME)}
        /\ set = Some(DMCOLOR_COLOR) =>
             /\ Len(col[1].Option) = 2
             /\ col[1].Option[1].Type = "STANDARD_COLOR" /\ col[1].Option[1].IsDefault
             /\ col[1].Option[2].Type = "STANDARD_MONOCHROME" /\ ~col[1].Option[2].IsDefault
        /\ set = Some(DMCOLOR_MONOCHROME) =>
             /\ Len(col[1].Option) = 1
             /\ col[1].Option[1].Type = "STANDARD_MONOCHROME" /\ col[1].Option[1].IsDefault
        /\ col # Nil => OneDefaultMatchingSetting(d)

\* GetPrinters returned a color device and a monochrome one, each with its group.
C11_Witness ==
  /\ Len(pi2s) = 2
  /\ pi2s[1].devMode.Color = Some(DMCOLOR_COLOR)
  /\ pi2s[2].devMode.Color = Some(DMCOLOR_MONOCHROME)
  /\ gpRet # Nil /\ ~gpRet[1].err
  /\ Len(gpRet[1].printers[1].Description.Color[1].Option) = 2
  /\ Len(gpRet[1].printers[2].Description.Color[1].Option) = 1

\* The three arrays are index-aligned.
Aligned(caps) ==
  Len(caps.names) = Len(caps.papers) /\ 2 * Len(caps.names) = Len(caps.sizes)

\* The options of the returned list that are the device's default paper: by paper
\* code, or by length and width (the device's tenths of a millimeter against the
\* option's micrometers).
DeviceDefaultOptions(dm, opts) ==
  {k \in DOMAIN opts :
     \/ dm.PaperSize # Nil /\ opts[k].VendorID = FormatUint(ToUint16(dm.PaperSize[1]))
     \/ /\ dm.PaperLength # Nil /\ dm.PaperWidth # Nil
        /\ opts[k].HeightMicrons = dm.PaperLength[1] * 100
        /\ opts[k].WidthMicrons = dm.PaperWidth[1] * 100}

\* The list is returned whole or not at all, and a non-empty list has one default.
MediaSizeWholeWithOneDefault ==
  (msRet # Nil /\ ~msRet[1].err) =>
    /\ ~Aligned(msCaps[1]) => msRet[1].mediaSize = Nil
    /\ Aligned(msCaps[1]) =>
         /\ msRet[1].mediaSize # Nil
         /\ LET opts == msRet[1].mediaSize[1].Option
            IN  /\ Len(opts) = Cardinality({k \in DOMAIN msCaps[1].names : msCaps[1].names[k] # ""})
                /\ opts # <<>> => Cardinality({k \in DOMAIN opts : opts[k].IsDefault}) = 1

\* C12: arrays that are not index-aligned give no media-size set, never a partial
\* list; a non-empty list has exactly one default option: one whose paper code is
\* the device's default paper code or whose length and width are the device's
\* default length and width, and the first option only when there is no such one.
C12_DefaultIsDevicePaper ==
  /\ MediaSizeWholeWithOneDefault
  /\ (msRet # Nil /\ ~msRet[1].err /\ msRet[1].mediaSize # Nil) =>
       LET opts == msRet[1].mediaSize[1].Option
           match == DeviceDefaultOptions(msDevMode[1], opts)
       IN  \A k \in DOMAIN opts :
             opts[k].IsDefault => IF match # {} THEN k \in match ELSE k = 1

\* The names of a list of printers.
NamesOf(list) == {list[k].Name : k \in DOMAIN list}

\* What GetAll returned is one printer of the list per distinct name of the list.
OnePerName(r, list) ==
  /\ ~r.panic
  /\ Len(r.printers) = Cardinality(NamesOf(list))
  /\ \A k \in DOMAIN r.printers : r.printers[k] \in SeqSet(list)
  /\ {r.printers[k].Name : k \in DOMAIN r.printers} = NamesOf(list)

\* What GetByNativeName(n) returned is found exactly when the list has a printer
\* named n, and then it is such a printer of the list.
FoundIffListed(r, n, list) ==
  /\ r.ok <=> n \in NamesOf(list)
  /\ r.ok => r.printer \in SeqSet(list) /\ r.printer.Name = n

\* C13: under any interleaving, the map is always the complete mapping of the
\* latest Refresh that swapped; a read that holds the lock sees the Refresh that was
\* the latest when it took the lock, and what it returns is that Refresh's mapping
\* (GetAll: one printer per distinct name; GetByNativeName: found iff listed); a
\* read waiting for the lock is held back by a writer only, never by other reads.
C13_ReadsSeeOneRefresh ==
  /\ DOMAIN byNativeName = NamesOf(lastList)
  /\ \A n \in DOMAIN byNativeName : byNativeName[n] \in SeqSet(lastList)
  /\ \A t \in Tasks :
       /\ viewList[t] # Nil => viewList[t][1] = lastList
       /\ (cpmRet[t] # Nil /\ cpmOp[t][1].op = "GetAll") => OnePerName(cpmRet[t][1], viewList[t][1])
       /\ (cpmRet[t] # Nil /\ cpmOp[t][1].op = "GetByNativeName")
            => FoundIffListed(cpmRet[t][1], cpmOp[t][1].arg, viewList[t][1])
       /\ (cpmPc[t] = "RLock" /\ mutex.writer = Nil /\ mutex.waiting = {}) => ENABLED CpmRLock(t)

\* Two reads hold the lock together, each with its result from the list of three
\* printers that some Refresh swapped in, while another Refresh waits in Lock.
C13_Witness ==
  \E t1, t2, t3 \in Tasks :
    /\ t1 # t2
    /\ lastList = <<PrinterB1, PrinterA1, PrinterA2>>
    /\ cpmPc[t1] = "RUnlock" /\ cpmOp[t1][1].op = "GetAll" /\ Len(cpmRet[t1][1].printers) = 2
    /\ cpmPc[t2] = "RUnlock" /\ cpmOp[t2][1] = [op |-> "GetByNativeName", arg |-> "a"]
    /\ cpmRet[t2][1] = [printer |-> PrinterA2, ok |-> TRUE]
    /\ cpmPc[t3] = "Lock" /\ cpmOp[t3][1].arg = <<PrinterA1>>

\* The stages of a submission, read off its state.  The device is opened once the
\* printer handle and the device context are acquired; the document is started once
\* StartDoc has returned the job; the settings are applied once the ticket has been
\* resolved onto jobContext.devMode without error.
DeviceOpened(p) == {"hPrinter", "hDC"} \subseteq SeqSet(acquired[p])

DocumentStarted(p) == "doc" \in SeqSet(acquired[p])

SettingsApplied(p) ==
  /\ devMode[p] # Nil /\ pc[p] # "ticket"
  /\ ~ResolveTicket(ticket[p][1], description[p], DeviceDevMode).err

Finalized(p) == ret[p] # Nil /\ ~ret[p][1].err

\* What the claim and its amendment share: nothing is open in Created; the device is
\* opened before the document is started; pages are rendered only once the document
\* is started and the settings are applied; Finalized comes only after every page
\* was rendered and the retain decision was taken; anything else is Failed.
LifecycleOrder ==
  \A p \in Procs :
    /\ pc[p] \in {"Acquire", "newJobContext"} => (acquired[p] = <<>> /\ devMode[p] = Nil)
    /\ DocumentStarted(p) => DeviceOpened(p)
    /\ \A j, k \in DOMAIN acquired[p] :
         (acquired[p][j] \in {"hPrinter", "hDC"} /\ acquired[p][k] = "doc") => j < k
    /\ SettingsApplied(p) =>
         devMode[p][1] = ResolveTicket(ticket[p][1], description[p], DeviceDevMode).devMode
    /\ rendered[p] # <<>> => (DocumentStarted(p) /\ SettingsApplied(p))
    /\ Finalized(p) =>
         /\ DocumentStarted(p) /\ SettingsApplied(p)
         /\ Len(rendered[p]) = nPages[p] /\ ji1[p] # Nil
    /\ (pc[p] = "returned" /\ ~Finalized(p)) => ret[p] = ErrReturn

MediaSizeApplied ==
  tkResolved # Nil /\ ~tkResolved[1].err /\ Applicable("MediaSize")

\* C15: once a ticket's media size is applied, the settings hold exactly one paper
\* representation: with a vendor id, the paper-size code is the parsed id and
\* length and width are cleared; without one, length and width are set and the
\* paper-size code is cleared; never a code together with explicit dimensions.
C15_OnePaperRepresentation ==
  MediaSizeApplied =>
    LET dm == tkResolved[1].devMode
        id == tkTicket[1].MediaSize[1].VendorID
    IN  /\ id # <<>> =>
             /\ dm.PaperSize = Some(ParseInt16(id).v)
             /\ dm.PaperLength = Nil /\ dm.PaperWidth = Nil
        /\ id = <<>> =>
             /\ dm.PaperSize = Nil
             /\ dm.PaperLength # Nil /\ dm.PaperWidth # Nil
        /\ ~(dm.PaperSize # Nil /\ (dm.PaperLength # Nil \/ dm.PaperWidth # Nil))

\* Vendor id "9" applied to a device on a custom paper size: code 9, the explicit
\* length and width gone.
C15_Witness ==
  /\ MediaSizeApplied
  /\ tkTicket[1].MediaSize[1].VendorID = <<"9">>
  /\ tkDevMode[1] = CustomPaperDevMode
  /\ tkResolved[1].devMode.PaperSize = Some(9)
  /\ tkResolved[1].devMode.PaperLength = Nil /\ tkResolved[1].devMode.PaperWidth = Nil

\* The options convertMediaSize advertises for a device that lists the paper alone.
AdvertisedFor(paper) ==
  LET caps == [names |-> <<paper.name>>, papers |-> <<paper.paper>>,
               sizes |-> <<paper.width, paper.length>>]
  IN  SeqSet(convertMediaSize(DeviceDevMode, caps, {}).mediaSize[1].Option)

\* C16: a media size requested by explicit width and height is written to the
\* settings as micrometers / 100 (tenths of a millimeter), without wrap-around; so
\* the micrometers of an option convertMediaSize advertises give back the device's
\* width and length in tenths of a millimeter.
C16_MicronsToTenthsOfMillimeter ==
  (MediaSizeApplied /\ tkTicket[1].MediaSize[1].VendorID = <<>>) =>
    LET dm == tkResolved[1].devMode
        ms == tkTicket[1].MediaSize[1]
    IN  /\ dm.PaperWidth = Some(ms.WidthMicrons \div 100)
        /\ dm.PaperLength = Some(ms.HeightMicrons \div 100)
        /\ \A paper \in Papers : \A o \in AdvertisedFor(paper) :
             (o.WidthMicrons = ms.WidthMicrons /\ o.HeightMicrons = ms.HeightMicrons)
               => (dm.PaperWidth = Some(paper.width) /\ dm.PaperLength = Some(paper.length))

\* pixels * 72 / dpi, in points.
PointsOf(pixels, dpi) == Prod(Float64(pixels), Frac(72, dpi))

Least(a, b) == IF Less(b, a) THEN b ELSE a

\* The scale, the offsets and the transform stated for the inputs in.
ScaleAsStated(in, out) ==
  LET wPaper == PointsOf(in.wPaperPixels, in.dpi[1])
      hPaper == PointsOf(in.hPaperPixels, in.dpi[2])
      wTarget == IF in.fitToPage THEN PointsOf(in.wPrintablePixels, in.dpi[1]) ELSE wPaper
      hTarget == IF in.fitToPage THEN PointsOf(in.hPrintablePixels, in.dpi[2]) ELSE hPaper
      scale == Least(Quo(wTarget, in.wDocPoints), Quo(hTarget, in.hDocPoints))
  IN  /\ out.scale = scale
      /\ out.xOffsetPoints = Quo(Diff(wPaper, Prod(in.wDocPoints, scale)), Float64(2))
      /\ out.yOffsetPoints = Quo(Diff(hPaper, Prod(in.hDocPoints, scale)), Float64(2))
      /\ out.matrix.xx = out.scale /\ out.matrix.yy = out.scale
      /\ ~in.fitToPage =>
           \A m \in Margins, w \in PrintableWidths, h \in PrintableHeights :
             ScaleAndOffsetOf([in EXCEPT !.margins = m, !.wPrintablePixels = w,
                                         !.hPrintablePixels = h])
               = [scale |-> out.scale, xOffsetPoints |-> out.xOffsetPoints,
                  yOffsetPoints |-> out.yOffsetPoints]

\* Every pixel count times 72 fits in 32 bits.
ProductsFit(in) ==
  \A px \in {in.wPaperPixels, in.hPaperPixels, in.wPrintablePixels, in.hPrintablePixels} :
    px <= 29826161

\* C17: for all positive document sizes, paper sizes, printable sizes and DPI
\* values, scale = min(targetW/docW, targetH/docH), the target being the printable
\* area in points with fit-to-page and the full paper without (points =
\* pixels*72/dpi); the offsets are (paperPoints - docPoints*scale)/2 against the
\* full paper in both modes; without fit-to-page the result does not depend on the
\* printable size or the margins; the same scale is used on both axes.
C17_ScaleAndOffsetForAllPositive ==
  scOut # Nil => ScaleAsStated(scIn[1], scOut[1])

\* The same for the pixel counts whose product with 72 fits in 32 bits.
ScaleAndOffsetWhereProductsFit ==
  (scOut # Nil /\ ProductsFit(scIn[1])) => ScaleAsStated(scIn[1], scOut[1])

\* A job service has returned to its caller.
ServiceReturned == svc # "none" /\ svcPc = "done"

\* C18: after any sequence of GetJobState, ReleaseJob and JobList calls, no printer
\* handle opened by those calls is still open: each call closes the handle it got
\* from OpenPrinter before it returns, with or without an error.
C18_HandleClosedOnReturn ==
  ServiceReturned => svcHPrinter # "open"

====
